---------------------------- MODULE Spec2Model ----------------------------
(***************************************************************************)
(* nvmetcfg: the state model, the delta engine (State/Port/Subsystem       *)
(* get_deltas) and the reconciliation executor (KernelConfig::gather_state *)
(* and KernelConfig::apply_delta over the nvmet configfs tree).            *)
(*                                                                         *)
(* Four specifications:                                                    *)
(*   DeltaSpec  the pure delta engine applied to pairs of inputs drawn     *)
(*              from bounded sets of States, Subsystems and Ports;         *)
(*   Spec       the executor: CLI commands acting on the kernel tree;      *)
(*   LibSpec    the executor on snapshot documents, unvalidated names and  *)
(*              ids, and a tree with a port of no transport type;          *)
(*   ValidationSpec  assert_compliant_nqn and the FibreChannelAddr         *)
(*              formatter and parser applied to bounded sets of inputs.    *)
(***************************************************************************)
EXTENDS Integers, Sequences, FiniteSets, TLC

VARIABLES
    level,      \* DeltaSpec: which get_deltas is exercised: "state", "subsystem", "port"
    base,       \* DeltaSpec: the base value (self)
    desired,    \* DeltaSpec: the desired value (other)
    deltas,     \* DeltaSpec: the list get_deltas returned
    dpc,        \* DeltaSpec: "input" before get_deltas, "diffed" after
    tree,       \* Spec: the nvmet configfs tree under /sys/kernel/config/nvmet/
    call        \* Spec: the last command: its input, the tree before it, its result

dvars == <<level, base, desired, deltas, dpc>>
evars == <<tree, call>>
vars == <<level, base, desired, deltas, dpc, tree, call>>

-----------------------------------------------------------------------------
(* Option<T>: None is the empty tuple, Some(x) the one-element tuple.      *)
None == <<>>
Some(x) == <<x>>
IsSome(o) == o # None
Unwrap(o) == o[1]

(* Byte order of the strings used as BTreeSet/BTreeMap keys.               *)
StrOrder ==
    <<"nqn.2014-08.org.nvmexpress.discovery", "nqn.a", "nqn.b", "nqn.c", "nqn.d", "nqn.h1",
      "nqn.h2", "nqn.h3", "nqn.U+00E9">>

(* Iteration of a BTreeSet<String>: ascending.                             *)
iter_str(S) == SelectSeq(StrOrder, LAMBDA s : s \in S)

RECURSIVE iter_int_Descending(_)
iter_int_Descending(S) ==
    IF S = {} THEN <<>>
    ELSE LET m == CHOOSE x \in S : \A y \in S : x >= y
         IN  <<m>> \o iter_int_Descending(S \ {m})

(* Iteration of a BTreeSet<u16>/<u32>: ascending, in the unsigned order (a *)
(* value with the top bit set, held here as a negative integer, is above   *)
(* every value without it).                                                *)
RECURSIVE iter_int(_)
iter_int(S) ==
    IF S = {} THEN <<>>
    ELSE LET le(x, y) == IF (x < 0) = (y < 0) THEN x <= y ELSE y < 0
             m == CHOOSE x \in S : \A y \in S : le(x, y)
         IN  <<m>> \o iter_int(S \ {m})

-----------------------------------------------------------------------------
(* helpers/hash_differences.rs                                             *)

get_btreemap_differences_SameAsChanged(b, n) ==
    [ same    |-> {},
      removed |-> {k \in DOMAIN b : k \notin DOMAIN n},
      changed |-> {k \in DOMAIN b : k \in DOMAIN n},
      added   |-> {k \in DOMAIN n : k \notin DOMAIN b} ]

get_btreemap_differences_AddedUnfiltered(b, n) ==
    [ same    |-> {k \in DOMAIN b : k \in DOMAIN n /\ b[k] = n[k]},
      removed |-> {k \in DOMAIN b : k \notin DOMAIN n},
      changed |-> {k \in DOMAIN b : k \in DOMAIN n /\ b[k] # n[k]},
      added   |-> DOMAIN n ]

get_btreemap_differences(b, n) ==
    [ same    |-> {k \in DOMAIN b : k \in DOMAIN n /\ b[k] = n[k]},
      removed |-> {k \in DOMAIN b : k \notin DOMAIN n},
      changed |-> {k \in DOMAIN b : k \in DOMAIN n /\ b[k] # n[k]},
      added   |-> {k \in DOMAIN n : k \notin DOMAIN b} ]

-----------------------------------------------------------------------------
(* state/delta.rs: the delta kinds                                         *)

AddPort(id, port)          == [kind |-> "AddPort", id |-> id, port |-> port]
UpdatePort(id, ds)         == [kind |-> "UpdatePort", id |-> id, deltas |-> ds]
RemovePort(id)             == [kind |-> "RemovePort", id |-> id]
AddSubsystem(nqn, sub)     == [kind |-> "AddSubsystem", nqn |-> nqn, sub |-> sub]
UpdateSubsystem(nqn, ds)   == [kind |-> "UpdateSubsystem", nqn |-> nqn, deltas |-> ds]
RemoveSubsystem(nqn)       == [kind |-> "RemoveSubsystem", nqn |-> nqn]

PortDelta_UpdatePortType(pt)   == [kind |-> "UpdatePortType", port_type |-> pt]
PortDelta_AddSubsystem(nqn)    == [kind |-> "AddSubsystem", nqn |-> nqn]
PortDelta_RemoveSubsystem(nqn) == [kind |-> "RemoveSubsystem", nqn |-> nqn]

UpdateModel(m)           == [kind |-> "UpdateModel", model |-> m]
UpdateSerial(s)          == [kind |-> "UpdateSerial", serial |-> s]
AddHost(h)               == [kind |-> "AddHost", host |-> h]
RemoveHost(h)            == [kind |-> "RemoveHost", host |-> h]
AddNamespace(nsid, ns)    == [kind |-> "AddNamespace", nsid |-> nsid, ns |-> ns]
UpdateNamespace(nsid, ns) == [kind |-> "UpdateNamespace", nsid |-> nsid, ns |-> ns]
RemoveNamespace(nsid)     == [kind |-> "RemoveNamespace", nsid |-> nsid]

(* Port::get_deltas: removed subsystems, the type update, added ones.     *)
Port_removed_subsystems(self, other) ==
    LET removed == iter_str(self.subsystems \ other.subsystems)
    IN  [i \in 1..Len(removed) |-> PortDelta_RemoveSubsystem(removed[i])]

Port_updated_type(self, other) ==
    IF self.port_type # other.port_type
    THEN <<PortDelta_UpdatePortType(other.port_type)>> ELSE <<>>

Port_added_subsystems(self, other) ==
    LET added == iter_str(other.subsystems \ self.subsystems)
    IN  [i \in 1..Len(added) |-> PortDelta_AddSubsystem(added[i])]

Port_get_deltas_TypeFirst(self, other) ==
    Port_updated_type(self, other)
    \o Port_removed_subsystems(self, other)
    \o Port_added_subsystems(self, other)

Port_get_deltas(self, other) ==
    Port_removed_subsystems(self, other)
    \o Port_updated_type(self, other)
    \o Port_added_subsystems(self, other)

(* Subsystem::get_deltas, block by block.                                  *)
Subsystem_updated_model_Unconditional(self, other) ==
    IF IsSome(other.model) THEN <<UpdateModel(Unwrap(other.model))>> ELSE <<>>

Subsystem_updated_model(self, other) ==
    IF self.model # other.model /\ IsSome(other.model)
    THEN <<UpdateModel(Unwrap(other.model))>> ELSE <<>>

Subsystem_updated_serial(self, other) ==
    IF self.serial # other.serial /\ IsSome(other.serial)
    THEN <<UpdateSerial(Unwrap(other.serial))>> ELSE <<>>

Subsystem_added_hosts(self, other) ==
    LET added == iter_str(other.allowed_hosts \ self.allowed_hosts)
    IN  [i \in 1..Len(added) |-> AddHost(added[i])]

Subsystem_removed_namespaces(self, other) ==
    LET removed == iter_int(get_btreemap_differences(self.namespaces, other.namespaces).removed)
    IN  [i \in 1..Len(removed) |-> RemoveNamespace(removed[i])]

Subsystem_updated_namespaces(self, other) ==
    LET changed == iter_int(get_btreemap_differences(self.namespaces, other.namespaces).changed)
    IN  [i \in 1..Len(changed) |-> UpdateNamespace(changed[i], other.namespaces[changed[i]])]

Subsystem_added_namespaces(self, other) ==
    LET added == iter_int(get_btreemap_differences(self.namespaces, other.namespaces).added)
    IN  [i \in 1..Len(added) |-> AddNamespace(added[i], other.namespaces[added[i]])]

Subsystem_removed_hosts_Forgotten(self, other) == <<>>

Subsystem_removed_hosts(self, other) ==
    LET removed == iter_str(self.allowed_hosts \ other.allowed_hosts)
    IN  [i \in 1..Len(removed) |-> RemoveHost(removed[i])]

Subsystem_get_deltas_RemoveHostsFirst(self, other) ==
    Subsystem_updated_model(self, other)
    \o Subsystem_updated_serial(self, other)
    \o Subsystem_removed_hosts(self, other)
    \o Subsystem_added_hosts(self, other)
    \o Subsystem_removed_namespaces(self, other)
    \o Subsystem_updated_namespaces(self, other)
    \o Subsystem_added_namespaces(self, other)

Subsystem_get_deltas_HostsSwapped(self, other) ==
    Subsystem_updated_model(self, other)
    \o Subsystem_updated_serial(self, other)
    \o Subsystem_removed_hosts(self, other)
    \o Subsystem_removed_namespaces(self, other)
    \o Subsystem_updated_namespaces(self, other)
    \o Subsystem_added_namespaces(self, other)
    \o Subsystem_added_hosts(self, other)

Subsystem_get_deltas(self, other) ==
    Subsystem_updated_model(self, other)
    \o Subsystem_updated_serial(self, other)
    \o Subsystem_added_hosts(self, other)
    \o Subsystem_removed_namespaces(self, other)
    \o Subsystem_updated_namespaces(self, other)
    \o Subsystem_added_namespaces(self, other)
    \o Subsystem_removed_hosts(self, other)

(* State::get_deltas, loop by loop.                                        *)
State_removed_ports(self, other) ==
    LET removed == iter_int(get_btreemap_differences(self.ports, other.ports).removed)
    IN  [i \in 1..Len(removed) |-> RemovePort(removed[i])]

State_removed_subsystems(self, other) ==
    LET removed == iter_str(get_btreemap_differences(self.subsystems, other.subsystems).removed)
    IN  [i \in 1..Len(removed) |-> RemoveSubsystem(removed[i])]

State_updated_subsystems(self, other) ==
    LET changed == iter_str(get_btreemap_differences(self.subsystems, other.subsystems).changed)
    IN  [i \in 1..Len(changed) |->
            UpdateSubsystem(changed[i],
                Subsystem_get_deltas(self.subsystems[changed[i]], other.subsystems[changed[i]]))]

State_added_subsystems(self, other) ==
    LET added == iter_str(get_btreemap_differences(self.subsystems, other.subsystems).added)
    IN  [i \in 1..Len(added) |-> AddSubsystem(added[i], other.subsystems[added[i]])]

State_updated_ports(self, other) ==
    LET changed == iter_int(get_btreemap_differences(self.ports, other.ports).changed)
    IN  [i \in 1..Len(changed) |->
            UpdatePort(changed[i],
                Port_get_deltas(self.ports[changed[i]], other.ports[changed[i]]))]

State_added_ports(self, other) ==
    LET added == iter_int(get_btreemap_differences(self.ports, other.ports).added)
    IN  [i \in 1..Len(added) |-> AddPort(added[i], other.ports[added[i]])]

State_get_deltas_PortsBeforeSubsystems(self, other) ==
    State_removed_ports(self, other)
    \o State_removed_subsystems(self, other)
    \o State_updated_ports(self, other)
    \o State_added_ports(self, other)
    \o State_updated_subsystems(self, other)
    \o State_added_subsystems(self, other)

State_get_deltas(self, other) ==
    State_removed_ports(self, other)
    \o State_removed_subsystems(self, other)
    \o State_updated_subsystems(self, other)
    \o State_added_subsystems(self, other)
    \o State_updated_ports(self, other)
    \o State_added_ports(self, other)

-----------------------------------------------------------------------------
(* state/types.rs: the values the delta engine is exercised on             *)

MaxNsid == 2
MaxPortId == 2

Loop == [tag |-> "Loop"]
Tcp(saddr) == [tag |-> "Tcp", addr |-> saddr]
Rdma(saddr) == [tag |-> "Rdma", addr |-> saddr]
FibreChannel(fcaddr) == [tag |-> "FibreChannel", addr |-> fcaddr]

SocketAddrV4(ip, port) == [fam |-> "V4", ip |-> ip, port |-> port]
SocketAddrV6(ip, port) == [fam |-> "V6", ip |-> ip, port |-> port]
FibreChannelAddr(wwnn, wwpn) == [wwnn |-> wwnn, wwpn |-> wwpn]

Namespace(enabled, path, uuid, nguid) ==
    [enabled |-> enabled, device_path |-> path, device_uuid |-> uuid, device_nguid |-> nguid]
Subsystem(model, serial, hosts, namespaces) ==
    [model |-> model, serial |-> serial, allowed_hosts |-> hosts, namespaces |-> namespaces]
Port(port_type, subsystems) == [port_type |-> port_type, subsystems |-> subsystems]
State(subsystems, ports) == [subsystems |-> subsystems, ports |-> ports]

(* A Rust String, and the text of a file, is a sequence of symbols: single *)
(* characters, or a word standing for a run of characters that holds no    *)
(* whitespace. An NQN, a path and a Uuid are kept as plain names.          *)
(* An Ipv4Addr is its 4 octets, an Ipv6Addr its 8 segments, a u64 its 16   *)
(* nibbles.                                                                *)
Ip4Local == <<127, 0, 0, 1>>
Ip6Local == <<0, 0, 0, 0, 0, 0, 0, 1>>
Wwnn1 == <<1, 0, 0, 0, 0, 0, 0, 0, 4, 4, 0, 0, 1, 1, 2, 3>>
Wwpn1 == <<2, 0, 0, 0, 0, 0, 0, 0, 5, 5, 0, 0, 1, 1, 2, 3>>

EmptyMap == <<>>
Subsystem_default == Subsystem(None, None, {}, EmptyMap)
State_default == State(EmptyMap, EmptyMap)

(* BTreeMap insert and remove.                                             *)
MapPut(m, k, v) == [x \in (DOMAIN m) \cup {k} |-> IF x = k THEN v ELSE m[x]]
MapDel(m, k) == [x \in (DOMAIN m) \ {k} |-> m[x]]
Range(s) == {s[i] : i \in 1..Len(s)}
StrRank(s) == CHOOSE i \in 1..Len(StrOrder) : StrOrder[i] = s

(* All BTreeMaps from a subset of keys K to values in V.                   *)
PartialMaps(K, V) == UNION {[S -> V] : S \in SUBSET K}

SubNqns == {"nqn.a", "nqn.b"}
HostNqns == {"nqn.h1", "nqn.h2"}
NsIds == 1..MaxNsid
PortIds == 1..MaxPortId

NsA == Namespace(TRUE, "/dev/sda", Some("uuid1"), Some("nguid1"))
Model1 == <<"m1">>
Model2 == <<"m2">>
Serial1 == <<"s1">>
NsB == Namespace(FALSE, "/dev/sdb", None, None)

PortTypeInputs ==
    {Loop, Tcp(SocketAddrV4(Ip4Local, 4420)), Rdma(SocketAddrV6(Ip6Local, 4420)),
     FibreChannel(FibreChannelAddr(Wwnn1, Wwpn1))}

SubsystemInputs ==
    { Subsystem(m, s, h, n) :
        m \in {None, Some(Model1), Some(Model2)}, s \in {None, Some(Serial1)},
        h \in SUBSET HostNqns, n \in PartialMaps(NsIds, {NsA, NsB}) }

PortInputs == { Port(t, s) : t \in PortTypeInputs, s \in SUBSET (SubNqns \cup {"nqn.c", "nqn.d"}) }

(* The State inputs are built from a few Subsystems and Ports, chosen so   *)
(* that every delta kind occurs.                                           *)
StateSubsystemInputs ==
    { Subsystem_default,
      Subsystem(Some(Model1), Some(Serial1), {"nqn.h1"}, (1 :> NsA)),
      Subsystem(None, Some(Serial1), {"nqn.h1"}, (1 :> NsA)) }
StatePortInputs ==
    { Port(Tcp(SocketAddrV4(Ip4Local, 4420)), {"nqn.a"}), Port(Loop, {"nqn.b"}) }
StateInputs ==
    { State(s, p) : s \in PartialMaps(SubNqns, StateSubsystemInputs),
                    p \in PartialMaps(PortIds, StatePortInputs) }

-----------------------------------------------------------------------------
(* The nvmet configfs tree (kernel/sysfs.rs works on it through std::fs).  *)
(*   tree.exists               /sys/kernel/config/nvmet/ exists            *)
(*   tree.hosts                names under hosts/                          *)
(*   tree.ports[id]            ports/<id>/: the addr_* files and the names *)
(*                             of the symlinks under subsystems/           *)
(*   tree.subsystems[nqn]      subsystems/<nqn>/: the attr_* files, the    *)
(*                             symlink names under allowed_hosts/, and     *)
(*                             namespaces/<nsid>/ with its four files      *)

NoNvmet == [exists |-> FALSE, hosts |-> {}, ports |-> EmptyMap, subsystems |-> EmptyMap]
EmptyNvmet == [exists |-> TRUE, hosts |-> {}, ports |-> EmptyMap, subsystems |-> EmptyMap]

(* What the kernel puts into a directory it has just been asked to make.   *)
KernelNewPort ==
    [addr_trtype |-> <<>>, addr_adrfam |-> <<>>, addr_traddr |-> <<>>, addr_trsvcid |-> <<>>,
     subsystems |-> {}]
KernelNewSubsystem ==
    [attr_model |-> <<"Linux">>, attr_serial |-> <<"0123456789abcdef">>,
     attr_allow_any_host |-> <<"0">>, allowed_hosts |-> {}, namespaces |-> EmptyMap]
KernelNewNamespace ==
    [enable |-> <<"0">>, device_path |-> <<"(null)">>, device_uuid |-> <<"uuid0">>,
     device_nguid |-> <<"nguid0">>]

(* The files outside the tree that set_device_path looks at.               *)
BlockDevices == {"/dev/sda", "/dev/sdb"}
OtherFiles == {"/etc/hostname"}
DeviceLinks == {"/dev/disk/by-id/a"}
canonicalize(path) == IF path = "/dev/disk/by-id/a" THEN "/dev/sda" ELSE path
PathExists(path) == path \in BlockDevices \cup OtherFiles \cup DeviceLinks
is_block_device(path) == canonicalize(path) \in BlockDevices

(* errors.rs: the error values the executor returns.                       *)
Ok == [kind |-> "Ok"]
Error(kind, what) == [kind |-> kind, what |-> what]
IoError(errno) == Error("Io", errno)
AddrParseError == Error("InvalidIPAddr", "")
ParseIntError == Error("InvalidNumber", "")

(* The progress of one apply_delta call: the tree, the first error (or Ok),*)
(* the index d of the delta being executed, and the log of what was done   *)
(* to the tree, each entry tagged with d; a failure ends the log.          *)
Begin(t) == [tree |-> t, err |-> Ok, d |-> 0, log |-> <<>>]
LogEntry(d, op, path, val) == [d |-> d, op |-> op, path |-> path, val |-> val]
Fail(r, e) ==
    [r EXCEPT !.err = e, !.log = Append(@, LogEntry(r.d, "error", <<>>, e))]
Done(r, t, op, path, val) ==
    [r EXCEPT !.tree = t, !.log = Append(@, LogEntry(r.d, op, path, val))]
Failed(r) == r.err # Ok

PortPath(id) == <<"ports", ToString(id)>>
SubsystemPath(nqn) == <<"subsystems", nqn>>
HostPath(h) == <<"hosts", h>>
NamespacePath(nqn, nsid) == <<"subsystems", nqn, "namespaces", ToString(nsid)>>

(* std::fs::create_dir / remove_dir / symlink / remove_file on the tree.   *)
create_dir_port(r, id) ==
    IF Failed(r) THEN r
    ELSE IF ~r.tree.exists THEN Fail(r, IoError("ENOENT"))
    ELSE IF id \in DOMAIN r.tree.ports THEN Fail(r, IoError("EEXIST"))
    ELSE Done(r, [r.tree EXCEPT !.ports = MapPut(@, id, KernelNewPort)],
              "create_dir", PortPath(id), None)

remove_dir_port(r, id) ==
    IF Failed(r) THEN r
    ELSE IF id \notin DOMAIN r.tree.ports THEN Fail(r, IoError("ENOENT"))
    ELSE IF r.tree.ports[id].subsystems # {} THEN Fail(r, IoError("ENOTEMPTY"))
    ELSE Done(r, [r.tree EXCEPT !.ports = MapDel(@, id)], "remove_dir", PortPath(id), None)

symlink_port_subsystem(r, id, nqn) ==
    IF Failed(r) THEN r
    ELSE IF id \notin DOMAIN r.tree.ports THEN Fail(r, IoError("ENOENT"))
    ELSE IF nqn \in r.tree.ports[id].subsystems THEN Fail(r, IoError("EEXIST"))
    ELSE Done(r, [r.tree EXCEPT !.ports[id].subsystems = @ \cup {nqn}],
              "symlink", PortPath(id) \o <<"subsystems", nqn>>, None)

remove_file_port_subsystem(r, id, nqn) ==
    IF Failed(r) THEN r
    ELSE IF id \notin DOMAIN r.tree.ports \/ nqn \notin r.tree.ports[id].subsystems
         THEN Fail(r, IoError("ENOENT"))
    ELSE Done(r, [r.tree EXCEPT !.ports[id].subsystems = @ \ {nqn}],
              "remove_file", PortPath(id) \o <<"subsystems", nqn>>, None)

create_dir_subsystem(r, nqn) ==
    IF Failed(r) THEN r
    ELSE IF ~r.tree.exists THEN Fail(r, IoError("ENOENT"))
    ELSE IF nqn \in DOMAIN r.tree.subsystems THEN Fail(r, IoError("EEXIST"))
    ELSE Done(r, [r.tree EXCEPT !.subsystems = MapPut(@, nqn, KernelNewSubsystem)],
              "create_dir", SubsystemPath(nqn), None)

remove_dir_subsystem(r, nqn) ==
    IF Failed(r) THEN r
    ELSE IF nqn \notin DOMAIN r.tree.subsystems THEN Fail(r, IoError("ENOENT"))
    ELSE IF \/ r.tree.subsystems[nqn].allowed_hosts # {}
            \/ DOMAIN r.tree.subsystems[nqn].namespaces # {}
         THEN Fail(r, IoError("ENOTEMPTY"))
    ELSE IF \E id \in DOMAIN r.tree.ports : nqn \in r.tree.ports[id].subsystems
         THEN Fail(r, IoError("EBUSY"))
    ELSE Done(r, [r.tree EXCEPT !.subsystems = MapDel(@, nqn)],
              "remove_dir", SubsystemPath(nqn), None)

create_dir_host(r, h) ==
    IF Failed(r) THEN r
    ELSE IF ~r.tree.exists THEN Fail(r, IoError("ENOENT"))
    ELSE IF h \in r.tree.hosts THEN Fail(r, IoError("EEXIST"))
    ELSE Done(r, [r.tree EXCEPT !.hosts = @ \cup {h}], "create_dir", HostPath(h), None)

remove_dir_host(r, h) ==
    IF Failed(r) THEN r
    ELSE IF h \notin r.tree.hosts THEN Fail(r, IoError("ENOENT"))
    ELSE IF \E nqn \in DOMAIN r.tree.subsystems : h \in r.tree.subsystems[nqn].allowed_hosts
         THEN Fail(r, IoError("EBUSY"))
    ELSE Done(r, [r.tree EXCEPT !.hosts = @ \ {h}], "remove_dir", HostPath(h), None)

symlink_allowed_host(r, nqn, h) ==
    IF Failed(r) THEN r
    ELSE IF nqn \notin DOMAIN r.tree.subsystems THEN Fail(r, IoError("ENOENT"))
    ELSE IF h \in r.tree.subsystems[nqn].allowed_hosts THEN Fail(r, IoError("EEXIST"))
    ELSE Done(r, [r.tree EXCEPT !.subsystems[nqn].allowed_hosts = @ \cup {h}],
              "symlink", SubsystemPath(nqn) \o <<"allowed_hosts", h>>, None)

remove_file_allowed_host(r, nqn, h) ==
    IF Failed(r) THEN r
    ELSE IF \/ nqn \notin DOMAIN r.tree.subsystems
            \/ h \notin r.tree.subsystems[nqn].allowed_hosts
         THEN Fail(r, IoError("ENOENT"))
    ELSE Done(r, [r.tree EXCEPT !.subsystems[nqn].allowed_hosts = @ \ {h}],
              "remove_file", SubsystemPath(nqn) \o <<"allowed_hosts", h>>, None)

HasNamespaceDir(t, nqn, nsid) ==
    nqn \in DOMAIN t.subsystems /\ nsid \in DOMAIN t.subsystems[nqn].namespaces

create_dir_namespace(r, nqn, nsid) ==
    IF Failed(r) THEN r
    ELSE IF nqn \notin DOMAIN r.tree.subsystems THEN Fail(r, IoError("ENOENT"))
    ELSE IF HasNamespaceDir(r.tree, nqn, nsid) THEN Fail(r, IoError("EEXIST"))
    ELSE Done(r, [r.tree EXCEPT !.subsystems[nqn].namespaces =
                                    MapPut(@, nsid, KernelNewNamespace)],
              "create_dir", NamespacePath(nqn, nsid), None)

remove_dir_namespace(r, nqn, nsid) ==
    IF Failed(r) THEN r
    ELSE IF ~HasNamespaceDir(r.tree, nqn, nsid) THEN Fail(r, IoError("ENOENT"))
    ELSE Done(r, [r.tree EXCEPT !.subsystems[nqn].namespaces = MapDel(@, nsid)],
              "remove_dir", NamespacePath(nqn, nsid), None)

(* helpers/io.rs write_str on the attribute files. The kernel refuses a    *)
(* write to a port's addr_* files while a subsystem is linked, and a write *)
(* to a namespace's device_* files while the namespace is enabled.         *)
write_str_port(r, id, attr, data) ==
    IF Failed(r) THEN r
    ELSE IF id \notin DOMAIN r.tree.ports THEN Fail(r, IoError("ENOENT"))
    ELSE IF r.tree.ports[id].subsystems # {} THEN Fail(r, IoError("EACCES"))
    ELSE Done(r, [r.tree EXCEPT !.ports[id][attr] = data],
              "write", PortPath(id) \o <<attr>>, Some(data))

write_str_subsystem(r, nqn, attr, data) ==
    IF Failed(r) THEN r
    ELSE IF nqn \notin DOMAIN r.tree.subsystems THEN Fail(r, IoError("ENOENT"))
    ELSE Done(r, [r.tree EXCEPT !.subsystems[nqn][attr] = data],
              "write", SubsystemPath(nqn) \o <<attr>>, Some(data))

write_str_namespace(r, nqn, nsid, attr, data) ==
    IF Failed(r) THEN r
    ELSE IF ~HasNamespaceDir(r.tree, nqn, nsid) THEN Fail(r, IoError("ENOENT"))
    ELSE IF attr # "enable" /\ r.tree.subsystems[nqn].namespaces[nsid].enable = <<"1">>
         THEN Fail(r, IoError("EBUSY"))
    ELSE Done(r, [r.tree EXCEPT !.subsystems[nqn].namespaces[nsid][attr] = data],
              "write", NamespacePath(nqn, nsid) \o <<attr>>, Some(data))

(* What a read of an attribute file returns: the kernel ends it with a     *)
(* newline.                                                                *)
KernelShow(stored) == stored \o <<"\n">>

(* helpers/io.rs read_str: the file's text without surrounding whitespace. *)
Whitespace == {" ", "\t", "\n"}
RECURSIVE trim_start(_)
trim_start(text) ==
    IF text # <<>> /\ Head(text) \in Whitespace THEN trim_start(Tail(text)) ELSE text
RECURSIVE trim_end(_)
trim_end(text) ==
    IF text # <<>> /\ text[Len(text)] \in Whitespace
    THEN trim_end(SubSeq(text, 1, Len(text) - 1)) ELSE text
trim(text) == trim_end(trim_start(text))
read_str(file) == trim(KernelShow(file))

(* The bytes of a text as one name (a PathBuf, a directory entry).         *)
RECURSIVE to_string(_)
to_string(text) == IF text = <<>> THEN "" ELSE Head(text) \o to_string(Tail(text))
RECURSIVE text_len(_)
text_len(text) == IF text = <<>> THEN 0 ELSE Len(Head(text)) + text_len(Tail(text))

(* A fallible call's return value: Ok(val) or Err(err).                    *)
Ret(v) == [err |-> Ok, val |-> v]
Err(e) == [err |-> e, val |-> None]

-----------------------------------------------------------------------------
(* Display and FromStr of the address types (std::net, state/types.rs).    *)

DecDigits == <<"0", "1", "2", "3", "4", "5", "6", "7", "8", "9">>
HexDigits == <<"0", "1", "2", "3", "4", "5", "6", "7", "8", "9",
               "a", "b", "c", "d", "e", "f">>
HexDigitsUpper == <<"0", "1", "2", "3", "4", "5", "6", "7", "8", "9",
                    "A", "B", "C", "D", "E", "F">>

(* format!("{n}") of an unsigned integer.                                  *)
RECURSIVE fmt_dec(_)
fmt_dec(n) == IF n < 10 THEN <<DecDigits[n + 1]>>
              ELSE Append(fmt_dec(n \div 10), DecDigits[(n % 10) + 1])

(* format!("{n:x}") of a u16.                                              *)
RECURSIVE fmt_hex(_)
fmt_hex(n) == IF n < 16 THEN <<HexDigits[n + 1]>>
              ELSE Append(fmt_hex(n \div 16), HexDigits[(n % 16) + 1])

Ipv4Addr_to_string(ip) ==
    fmt_dec(ip[1]) \o <<".">> \o fmt_dec(ip[2]) \o <<".">> \o fmt_dec(ip[3]) \o <<".">>
        \o fmt_dec(ip[4])

(* Display of an Ipv6Addr writes "::1" for the loopback address; the other *)
(* branch is the uncompressed form, which Display uses for an address      *)
(* without two adjacent zero segments.                                     *)
Ipv6Addr_to_string(ip) ==
    IF ip = <<0, 0, 0, 0, 0, 0, 0, 1>> THEN <<":", ":", "1">>
    ELSE LET seg[i \in 1..8] ==
                 IF i = 1 THEN fmt_hex(ip[1]) ELSE seg[i - 1] \o <<":">> \o fmt_hex(ip[i])
         IN seg[8]

IpAddr_to_string(saddr) ==
    IF saddr.fam = "V6" THEN Ipv6Addr_to_string(saddr.ip) ELSE Ipv4Addr_to_string(saddr.ip)
is_ipv6(saddr) == saddr.fam = "V6"

DigitValue(c, digits) == CHOOSE v \in 0..(Len(digits) - 1) : digits[v + 1] = c
IsDigit(c, digits) == \E i \in 1..Len(digits) : digits[i] = c

(* The length of the run of decimal digits of text that starts at pos.     *)
RECURSIVE DigitRun(_, _)
DigitRun(text, pos) ==
    IF pos <= Len(text) /\ IsDigit(text[pos], DecDigits) THEN 1 + DigitRun(text, pos + 1) ELSE 0

(* std::net parser read_number(10, max_digits, allow_zero_prefix), with    *)
(* the overflow check of the target type (u8: 255, u16: 65535).            *)
read_number(text, pos, max_digits, allow_zero_prefix, max_value) ==
    LET Read(n) ==
            LET val[i \in 0..n] ==
                    IF i = 0 THEN 0
                    ELSE IF val[i - 1] > max_value THEN val[i - 1]
                    ELSE val[i - 1] * 10 + DigitValue(text[pos + i - 1], DecDigits)
                Checked(v) ==
                    IF v > max_value THEN Err(AddrParseError)
                    ELSE Ret([val |-> v, next |-> pos + n])
            IN  IF n = 0 THEN Err(AddrParseError)
                ELSE IF max_digits > 0 /\ n > max_digits THEN Err(AddrParseError)
                ELSE IF ~allow_zero_prefix /\ n > 1 /\ text[pos] = "0" THEN Err(AddrParseError)
                ELSE Checked(val[n])
    IN  Read(DigitRun(text, pos))

IsChar(text, pos, c) == pos <= Len(text) /\ text[pos] = c

(* read_socket_addr_v4: a.b.c.d:port up to the end of the input.           *)
read_socket_addr_v4(text) ==
    LET Port4(ip, pt) ==
            IF pt.err # Ok \/ pt.val.next # Len(text) + 1 THEN Err(AddrParseError)
            ELSE Ret(SocketAddrV4(ip, pt.val.val))
        Octet4(ip, o) ==
            IF o.err # Ok \/ ~IsChar(text, o.val.next, ":") THEN Err(AddrParseError)
            ELSE Port4(Append(ip, o.val.val), read_number(text, o.val.next + 1, 0, TRUE, 65535))
        Octet3(ip, o) ==
            IF o.err # Ok \/ ~IsChar(text, o.val.next, ".") THEN Err(AddrParseError)
            ELSE Octet4(Append(ip, o.val.val), read_number(text, o.val.next + 1, 3, FALSE, 255))
        Octet2(ip, o) ==
            IF o.err # Ok \/ ~IsChar(text, o.val.next, ".") THEN Err(AddrParseError)
            ELSE Octet3(Append(ip, o.val.val), read_number(text, o.val.next + 1, 3, FALSE, 255))
        Octet1(o) ==
            IF o.err # Ok \/ ~IsChar(text, o.val.next, ".") THEN Err(AddrParseError)
            ELSE Octet2(<<o.val.val>>, read_number(text, o.val.next + 1, 3, FALSE, 255))
    IN  Octet1(read_number(text, 1, 3, FALSE, 255))

(* read_socket_addr_v6: [address]:port. The address between the brackets   *)
(* is read for the loopback address only.                                  *)
read_socket_addr_v6(text) ==
    LET Port6(pt) ==
            IF pt.err # Ok \/ pt.val.next # Len(text) + 1 THEN Err(AddrParseError)
            ELSE Ret(SocketAddrV6(<<0, 0, 0, 0, 0, 0, 0, 1>>, pt.val.val))
    IN  IF ~IsChar(text, 1, "[") THEN Err(AddrParseError)
        ELSE IF SubSeq(text, 2, 6) # <<":", ":", "1", "]", ":">> THEN Err(AddrParseError)
        ELSE Port6(read_number(text, 7, 0, TRUE, 65535))

(* <SocketAddr as FromStr>::from_str: the V4 form, else the V6 form.       *)
SocketAddr_from_str(text) ==
    LET OrV6(v4) == IF v4.err = Ok THEN v4 ELSE read_socket_addr_v6(text)
    IN  OrV6(read_socket_addr_v4(text))

(* format!("{:#018x}", n) of a u64 held as 16 nibbles.                     *)
fmt_018x(n) == <<"0", "x">> \o [i \in 1..16 |-> HexDigits[n[i] + 1]]

FibreChannelAddr_to_traddr_Unpadded(fc) ==
    LET fmt_x(n) ==
            LET zeros == Cardinality({i \in 1..15 : \A j \in 1..i : n[j] = 0})
            IN  <<"0", "x">> \o [i \in 1..(16 - zeros) |-> HexDigits[n[zeros + i] + 1]]
    IN  <<"n", "n", "-">> \o fmt_x(fc.wwnn) \o <<":", "p", "n", "-">> \o fmt_x(fc.wwpn)

FibreChannelAddr_to_traddr(fc) ==
    <<"n", "n", "-">> \o fmt_018x(fc.wwnn) \o <<":", "p", "n", "-">> \o fmt_018x(fc.wwpn)

(* u64::from_str_radix(src, 16) of a 16 byte slice: an optional '+', then  *)
(* at least one digit, every digit hexadecimal in either case.             *)
HexValue(c) == IF IsDigit(c, HexDigits) THEN DigitValue(c, HexDigits)
               ELSE DigitValue(c, HexDigitsUpper)
IsHexDigit(c) == IsDigit(c, HexDigits) \/ IsDigit(c, HexDigitsUpper)
u64_from_str_radix_16(src) ==
    LET Digits(digits) ==
            IF digits = <<>> \/ \E i \in 1..Len(digits) : ~IsHexDigit(digits[i])
            THEN Err(ParseIntError)
            ELSE Ret([i \in 1..16 |-> IF i <= 16 - Len(digits) THEN 0
                                      ELSE HexValue(digits[i - (16 - Len(digits))])])
    IN  Digits(IF src # <<>> /\ Head(src) = "+" THEN Tail(src) ELSE src)

FcLongLen == 43
FcShortLen == 39
FibreChannelAddr_from_str(s) ==
    LET Names(nn_src, pn_src) ==
            LET Parsed(nn, pn) ==
                    IF nn.err # Ok THEN Err(Error("InvalidFCWWNN", nn_src))
                    ELSE IF pn.err # Ok THEN Err(Error("InvalidFCWWPN", pn_src))
                    ELSE Ret(FibreChannelAddr(nn.val, pn.val))
            IN  Parsed(u64_from_str_radix_16(nn_src), u64_from_str_radix_16(pn_src))
    IN  IF Len(s) = FcLongLen THEN Names(SubSeq(s, 6, 21), SubSeq(s, 28, 43))
        ELSE IF Len(s) = FcShortLen THEN Names(SubSeq(s, 4, 19), SubSeq(s, 24, 39))
        ELSE Err(Error("InvalidFCAddr", s))

(* Uuid::hyphenated and Uuid::parse_str: a Uuid's text is one word.        *)
Uuids == {"uuid0", "nguid0", "uuid1", "nguid1"}
Uuid_hyphenated(u) == <<u>>
Uuid_parse_str(text) ==
    IF Len(text) = 1 /\ text[1] \in Uuids THEN Ret(text[1]) ELSE Err(Error("InvalidUuid", text))


-----------------------------------------------------------------------------
(* helpers/validation.rs                                                   *)

(* The names that stand for a string with a character outside ASCII.       *)
NonAsciiNames == {"nqn.U+00E9"}
is_ascii_only(data) == data \notin NonAsciiNames

MaxNqnLen == 223
assert_valid_nqn(nqn) ==
    IF ~is_ascii_only(nqn) THEN Error("NQNNotAscii", nqn)
    ELSE IF Len(nqn) > MaxNqnLen THEN Error("NQNTooLong", nqn)
    ELSE Ok

MaxModelLen == 40
assert_valid_model(model) ==
    IF ~is_ascii_only(to_string(model)) \/ model = <<>> \/ text_len(model) > MaxModelLen
    THEN Error("InvalidModel", model) ELSE Ok

MaxSerialLen == 20
assert_valid_serial(serial) ==
    IF ~is_ascii_only(to_string(serial)) \/ serial = <<>> \/ text_len(serial) > MaxSerialLen
    THEN Error("InvalidSerial", serial) ELSE Ok

(* NVME_NSID_ALL, 0xffff_ffff, written as the same 32 bits read as a       *)
(* signed integer.                                                         *)
NsidAll == -1
assert_valid_nsid(nsid) ==
    IF nsid = 0 \/ nsid = NsidAll THEN Error("InvalidNamespaceID", nsid) ELSE Ok

(* <i16 as FromStr>::from_str: an optional sign, then at least one decimal *)
(* digit and nothing else, the value within -32768..32767.                 *)
i16_from_str(src) ==
    LET digits == IF src # <<>> /\ Head(src) \in {"+", "-"} THEN Tail(src) ELSE src
        val[i \in 0..Len(digits)] ==
            IF i = 0 THEN 0
            ELSE IF val[i - 1] > 32768 THEN val[i - 1]
            ELSE val[i - 1] * 10 + DigitValue(digits[i], DecDigits)
    IN  IF digits = <<>> \/ \E i \in 1..Len(digits) : ~IsDigit(digits[i], DecDigits)
        THEN Err(ParseIntError)
        ELSE IF src[1] = "-" /\ val[Len(digits)] > 32768 THEN Err(ParseIntError)
        ELSE IF src[1] # "-" /\ val[Len(digits)] > 32767 THEN Err(ParseIntError)
        ELSE Ret(IF src[1] = "-" THEN 0 - val[Len(digits)] ELSE val[Len(digits)])

(* Uuid::try_parse of a text of single characters: 32 hexadecimal digits,  *)
(* or the hyphenated form 8-4-4-4-12, which may stand in braces or after   *)
(* "urn:uuid:".                                                            *)
Uuid_try_parse(input) ==
    LET Simple(t) == Len(t) = 32 /\ \A i \in 1..32 : IsHexDigit(t[i])
        Hyphenated(t) ==
            /\ Len(t) = 36
            /\ \A i \in 1..36 : IF i \in {9, 14, 19, 24} THEN t[i] = "-" ELSE IsHexDigit(t[i])
        Urn == <<"u", "r", "n", ":", "u", "u", "i", "d", ":">>
    IN  IF \/ Simple(input)
           \/ Hyphenated(input)
           \/ Len(input) = 38 /\ input[1] = "{" /\ input[38] = "}"
                /\ Hyphenated(SubSeq(input, 2, 37))
           \/ Len(input) = 45 /\ SubSeq(input, 1, 9) = Urn /\ Hyphenated(SubSeq(input, 10, 45))
        THEN Ok
        ELSE Error("InvalidUuid", input)

(* str::starts_with / strip_prefix and split_once(":") on a text of single *)
(* characters.                                                             *)
starts_with(text, prefix) == Len(text) >= Len(prefix) /\ SubSeq(text, 1, Len(prefix)) = prefix
split_once_colon(text) ==
    LET at == {i \in 1..Len(text) : text[i] = ":"}
        Split(i) == Some([domain |-> SubSeq(text, 1, i - 1),
                          identifier |-> SubSeq(text, i + 1, Len(text))])
    IN  IF at = {} THEN None ELSE Split(CHOOSE i \in at : \A j \in at : i <= j)

NqnPrefix == <<"n", "q", "n", ".">>
MinNqnLen == 15
UuidNqnPrefix == <<"n", "q", "n", ".", "2", "0", "1", "4", "-", "0", "8", ".",
    "o", "r", "g", ".", "n", "v", "m", "e", "x", "p", "r", "e", "s", "s", ":",
    "u", "u", "i", "d", ":">>
OrgNvmexpress == <<"o", "r", "g", ".", "n", "v", "m", "e", "x", "p", "r", "e",
    "s", "s">>

(* assert_compliant_nqn of an NQN given as its text. The month is taken    *)
(* from nqn[9..10], one byte.                                              *)
assert_compliant_nqn(nqn) ==
    LET Shape(split) ==
            IF IsSome(split) /\ Unwrap(split).domain = OrgNvmexpress
            THEN Error("NQNInvalidDomain", nqn)
            ELSE IF /\ IsSome(split)
                    /\ Unwrap(split).domain # <<>>
                    /\ Unwrap(split).identifier # <<>>
                 THEN Ok
            ELSE Error("NQNInvalidIdentifier", nqn)
        Dated ==
            LET has_dots_and_dash == nqn[4] = "." /\ nqn[9] = "-" /\ nqn[12] = "."
                valid_date == /\ i16_from_str(SubSeq(nqn, 5, 8)).err = Ok
                              /\ i16_from_str(SubSeq(nqn, 10, 10)).err = Ok
            IN  IF ~has_dots_and_dash \/ ~valid_date THEN Error("NQNInvalidDate", nqn)
                ELSE Shape(split_once_colon(SubSeq(nqn, 13, Len(nqn))))
    IN  IF assert_valid_nqn(to_string(nqn)) # Ok THEN assert_valid_nqn(to_string(nqn))
        ELSE IF ~starts_with(nqn, NqnPrefix) THEN Error("NQNMissingNQN", nqn)
        ELSE IF text_len(nqn) < MinNqnLen THEN Error("NQNTooShort", nqn)
        ELSE IF starts_with(nqn, UuidNqnPrefix)
             THEN IF Uuid_try_parse(SubSeq(nqn, Len(UuidNqnPrefix) + 1, Len(nqn))) # Ok
                  THEN Error("NQNUuidInvalid", SubSeq(nqn, Len(UuidNqnPrefix) + 1, Len(nqn)))
                  ELSE Ok
        ELSE IF to_string(nqn) = "nqn.2014-08.org.nvmexpress.discovery"
             THEN Error("CantCreateDiscovery", "")
        ELSE Dated

-----------------------------------------------------------------------------
(* kernel/sysfs.rs: NvmetPort                                              *)

NvmetPort_get_type(t, id) ==
    LET Tagged(tag, addr) == IF addr.err # Ok THEN addr ELSE Ret([tag |-> tag, addr |-> addr.val])
        Match(trtype, traddr, trsvcid) ==
            CASE trtype = "loop" -> Ret(Loop)
              [] trtype = "tcp" ->
                    Tagged("Tcp", SocketAddr_from_str(traddr \o <<":">> \o trsvcid))
              [] trtype = "rdma" ->
                    Tagged("Rdma", SocketAddr_from_str(traddr \o <<":">> \o trsvcid))
              [] trtype = "fc" -> Tagged("FibreChannel", FibreChannelAddr_from_str(traddr))
              [] OTHER -> Err(Error("UnsupportedTrType", trtype))
    IN  IF id \notin DOMAIN t.ports THEN Err(IoError("ENOENT"))
        ELSE Match(to_string(read_str(t.ports[id].addr_trtype)),
                   read_str(t.ports[id].addr_traddr), read_str(t.ports[id].addr_trsvcid))

NvmetPort_list_subsystems(t, id) ==
    IF id \notin DOMAIN t.ports THEN Err(IoError("ENOENT")) ELSE Ret(t.ports[id].subsystems)

NvmetPort_has_subsystem(t, id, nqn) ==
    id \in DOMAIN t.ports /\ nqn \in t.ports[id].subsystems

NvmetPort_disable_subsystem(r, id, nqn) == remove_file_port_subsystem(r, id, nqn)

NvmetPort_enable_subsystem_Unchecked(r, id, nqn) ==
    IF Failed(r) THEN r
    ELSE IF assert_valid_nqn(nqn) # Ok THEN Fail(r, assert_valid_nqn(nqn))
    ELSE symlink_port_subsystem(r, id, nqn)

NvmetPort_enable_subsystem(r, id, nqn) ==
    IF Failed(r) THEN r
    ELSE IF assert_valid_nqn(nqn) # Ok THEN Fail(r, assert_valid_nqn(nqn))
    ELSE IF nqn \notin DOMAIN r.tree.subsystems THEN Fail(r, Error("NoSuchSubsystem", nqn))
    ELSE symlink_port_subsystem(r, id, nqn)

NvmetPort_set_subsystems(r, id, desired_subs) ==
    IF Failed(r) THEN r
    ELSE LET actual == NvmetPort_list_subsystems(r.tree, id)
         IN  IF actual.err # Ok THEN Fail(r, actual.err)
             ELSE LET added == iter_str(desired_subs \ actual.val)
                      removed == iter_str(actual.val \ desired_subs)
                      rem[i \in 0..Len(removed)] ==
                          IF i = 0 THEN r
                          ELSE NvmetPort_disable_subsystem(rem[i - 1], id, removed[i])
                      add[i \in 0..Len(added)] ==
                          IF i = 0 THEN rem[Len(removed)]
                          ELSE NvmetPort_enable_subsystem(add[i - 1], id, added[i])
                  IN  add[Len(added)]

(* The four writes of a Tcp or Rdma port.                                  *)
NvmetPort_set_type_saddr(r, id, trtype, saddr) ==
    LET r1 == write_str_port(r, id, "addr_trtype", trtype)
        r2 == IF is_ipv6(saddr) THEN write_str_port(r1, id, "addr_adrfam", <<"ipv6">>)
              ELSE write_str_port(r1, id, "addr_adrfam", <<"ipv4">>)
        r3 == write_str_port(r2, id, "addr_traddr", IpAddr_to_string(saddr))
    IN  write_str_port(r3, id, "addr_trsvcid", fmt_dec(saddr.port))

NvmetPort_set_type_NoRelink(r, id, port_type) ==
    IF Failed(r) THEN r
    ELSE LET subs == NvmetPort_list_subsystems(r.tree, id)
             r1 == NvmetPort_set_subsystems(r, id, {})
             r2 == CASE port_type.tag = "Loop" ->
                            write_str_port(r1, id, "addr_trtype", <<"loop">>)
                      [] port_type.tag = "Tcp" ->
                            NvmetPort_set_type_saddr(r1, id, <<"tcp">>, port_type.addr)
                      [] port_type.tag = "Rdma" ->
                            NvmetPort_set_type_saddr(r1, id, <<"rdma">>, port_type.addr)
                      [] port_type.tag = "FibreChannel" ->
                            write_str_port(
                              write_str_port(
                                write_str_port(
                                  write_str_port(r1, id, "addr_trtype", <<"fc">>),
                                  id, "addr_adrfam", <<"fc">>),
                                id, "addr_traddr", FibreChannelAddr_to_traddr(port_type.addr)),
                              id, "addr_trsvcid", <<"none">>)
         IN  IF subs.err # Ok THEN Fail(r, subs.err)
             ELSE r2

NvmetPort_set_type(r, id, port_type) ==
    IF Failed(r) THEN r
    ELSE LET subs == NvmetPort_list_subsystems(r.tree, id)
             r1 == NvmetPort_set_subsystems(r, id, {})
             r2 == CASE port_type.tag = "Loop" ->
                            write_str_port(r1, id, "addr_trtype", <<"loop">>)
                      [] port_type.tag = "Tcp" ->
                            NvmetPort_set_type_saddr(r1, id, <<"tcp">>, port_type.addr)
                      [] port_type.tag = "Rdma" ->
                            NvmetPort_set_type_saddr(r1, id, <<"rdma">>, port_type.addr)
                      [] port_type.tag = "FibreChannel" ->
                            write_str_port(
                              write_str_port(
                                write_str_port(
                                  write_str_port(r1, id, "addr_trtype", <<"fc">>),
                                  id, "addr_adrfam", <<"fc">>),
                                id, "addr_traddr", FibreChannelAddr_to_traddr(port_type.addr)),
                              id, "addr_trsvcid", <<"none">>)
         IN  IF subs.err # Ok THEN Fail(r, subs.err)
             ELSE NvmetPort_set_subsystems(r2, id, subs.val)

-----------------------------------------------------------------------------
(* kernel/sysfs.rs: NvmetNamespace                                         *)

NamespaceFile(t, nqn, nsid, attr) == t.subsystems[nqn].namespaces[nsid][attr]

NvmetNamespace_is_enabled(t, nqn, nsid) ==
    IF ~HasNamespaceDir(t, nqn, nsid) THEN Err(IoError("ENOENT"))
    ELSE LET enable == to_string(read_str(NamespaceFile(t, nqn, nsid, "enable")))
         IN  CASE enable = "1" -> Ret(TRUE)
               [] enable = "0" -> Ret(FALSE)
               [] OTHER -> Err(Error("unreachable", enable))

NvmetNamespace_set_enabled(r, nqn, nsid, enabled) ==
    IF enabled THEN write_str_namespace(r, nqn, nsid, "enable", <<"1">>)
    ELSE write_str_namespace(r, nqn, nsid, "enable", <<"0">>)

NvmetNamespace_get_device_path(t, nqn, nsid) ==
    IF ~HasNamespaceDir(t, nqn, nsid) THEN Err(IoError("ENOENT"))
    ELSE Ret(to_string(read_str(NamespaceFile(t, nqn, nsid, "device_path"))))

NvmetNamespace_set_device_path_AnyFile(r, nqn, nsid, dev) ==
    IF Failed(r) THEN r
    ELSE IF ~PathExists(dev) THEN Fail(r, IoError("ENOENT"))
    ELSE write_str_namespace(r, nqn, nsid, "device_path", <<canonicalize(dev)>>)

NvmetNamespace_set_device_path(r, nqn, nsid, dev) ==
    IF Failed(r) THEN r
    ELSE IF ~PathExists(dev) THEN Fail(r, IoError("ENOENT"))
    ELSE IF ~is_block_device(dev) THEN Fail(r, Error("InvalidDevice", dev))
    ELSE write_str_namespace(r, nqn, nsid, "device_path", <<canonicalize(dev)>>)

NvmetNamespace_get_device_uuid(t, nqn, nsid) ==
    IF ~HasNamespaceDir(t, nqn, nsid) THEN Err(IoError("ENOENT"))
    ELSE Uuid_parse_str(read_str(NamespaceFile(t, nqn, nsid, "device_uuid")))

NvmetNamespace_set_device_uuid(r, nqn, nsid, uuid) ==
    write_str_namespace(r, nqn, nsid, "device_uuid", Uuid_hyphenated(uuid))

NvmetNamespace_get_device_nguid(t, nqn, nsid) ==
    IF ~HasNamespaceDir(t, nqn, nsid) THEN Err(IoError("ENOENT"))
    ELSE Uuid_parse_str(read_str(NamespaceFile(t, nqn, nsid, "device_nguid")))

NvmetNamespace_set_device_nguid(r, nqn, nsid, uuid) ==
    write_str_namespace(r, nqn, nsid, "device_nguid", Uuid_hyphenated(uuid))

NvmetNamespace_get_namespace(t, nqn, nsid) ==
    LET Compose(enabled, device_path, device_uuid, device_nguid) ==
            IF enabled.err # Ok THEN enabled
            ELSE IF device_path.err # Ok THEN device_path
            ELSE IF device_uuid.err # Ok THEN device_uuid
            ELSE IF device_nguid.err # Ok THEN device_nguid
            ELSE Ret(Namespace(enabled.val, device_path.val,
                               Some(device_uuid.val), Some(device_nguid.val)))
    IN  Compose(NvmetNamespace_is_enabled(t, nqn, nsid),
                NvmetNamespace_get_device_path(t, nqn, nsid),
                NvmetNamespace_get_device_uuid(t, nqn, nsid),
                NvmetNamespace_get_device_nguid(t, nqn, nsid))

NvmetNamespace_set_namespace_NoDisable(r, nqn, nsid, ns) ==
    LET SetUuid(q) ==
            IF IsSome(ns.device_uuid)
            THEN NvmetNamespace_set_device_uuid(q, nqn, nsid, Unwrap(ns.device_uuid))
            ELSE q
        SetNguid(q) ==
            IF IsSome(ns.device_nguid)
            THEN NvmetNamespace_set_device_nguid(q, nqn, nsid, Unwrap(ns.device_nguid))
            ELSE q
    IN  NvmetNamespace_set_enabled(
            SetNguid(SetUuid(
                NvmetNamespace_set_device_path(r, nqn, nsid, ns.device_path))),
            nqn, nsid, ns.enabled)

NvmetNamespace_set_namespace(r, nqn, nsid, ns) ==
    LET SetUuid(q) ==
            IF IsSome(ns.device_uuid)
            THEN NvmetNamespace_set_device_uuid(q, nqn, nsid, Unwrap(ns.device_uuid))
            ELSE q
        SetNguid(q) ==
            IF IsSome(ns.device_nguid)
            THEN NvmetNamespace_set_device_nguid(q, nqn, nsid, Unwrap(ns.device_nguid))
            ELSE q
    IN  NvmetNamespace_set_enabled(
            SetNguid(SetUuid(
                NvmetNamespace_set_device_path(
                    NvmetNamespace_set_enabled(r, nqn, nsid, FALSE),
                    nqn, nsid, ns.device_path))),
            nqn, nsid, ns.enabled)

-----------------------------------------------------------------------------
(* kernel/sysfs.rs: NvmetSubsystem                                         *)

NvmetSubsystem_set_allow_any(r, nqn, enabled) ==
    IF enabled THEN write_str_subsystem(r, nqn, "attr_allow_any_host", <<"1">>)
    ELSE write_str_subsystem(r, nqn, "attr_allow_any_host", <<"0">>)

NvmetSubsystem_list_hosts(t, nqn) ==
    IF nqn \notin DOMAIN t.subsystems THEN Err(IoError("ENOENT"))
    ELSE Ret(t.subsystems[nqn].allowed_hosts)

NvmetSubsystem_enable_host_NoCreate(r, nqn, host) ==
    IF Failed(r) THEN r
    ELSE IF assert_valid_nqn(host) # Ok THEN Fail(r, assert_valid_nqn(host))
    ELSE symlink_allowed_host(r, nqn, host)

NvmetSubsystem_enable_host(r, nqn, host) ==
    IF Failed(r) THEN r
    ELSE IF assert_valid_nqn(host) # Ok THEN Fail(r, assert_valid_nqn(host))
    ELSE LET r1 == IF host \notin r.tree.hosts THEN create_dir_host(r, host) ELSE r
         IN  symlink_allowed_host(r1, nqn, host)

NvmetSubsystem_disable_host_RemovesOrphan(r, nqn, host) ==
    LET r1 == remove_file_allowed_host(r, nqn, host)
    IN  IF \/ Failed(r1)
           \/ \E n \in DOMAIN r1.tree.subsystems : host \in r1.tree.subsystems[n].allowed_hosts
        THEN r1
        ELSE remove_dir_host(r1, host)

NvmetSubsystem_disable_host(r, nqn, host) == remove_file_allowed_host(r, nqn, host)

NvmetSubsystem_set_hosts_FlagLast(r, nqn, hosts) ==
    IF Failed(r) THEN r
    ELSE LET current_hosts == NvmetSubsystem_list_hosts(r.tree, nqn)
         IN  IF current_hosts.err # Ok THEN Fail(r, current_hosts.err)
             ELSE LET added_hosts == iter_str(hosts \ current_hosts.val)
                      removed_hosts == iter_str(current_hosts.val \ hosts)
                      rem[i \in 0..Len(removed_hosts)] ==
                          IF i = 0 THEN r
                          ELSE NvmetSubsystem_disable_host(rem[i - 1], nqn, removed_hosts[i])
                      add[i \in 0..Len(added_hosts)] ==
                          IF i = 0 THEN rem[Len(removed_hosts)]
                          ELSE NvmetSubsystem_enable_host(add[i - 1], nqn, added_hosts[i])
                  IN  NvmetSubsystem_set_allow_any(add[Len(added_hosts)], nqn, hosts = {})

NvmetSubsystem_set_hosts(r, nqn, hosts) ==
    IF Failed(r) THEN r
    ELSE LET current_hosts == NvmetSubsystem_list_hosts(r.tree, nqn)
         IN  IF current_hosts.err # Ok THEN Fail(r, current_hosts.err)
             ELSE LET added_hosts == iter_str(hosts \ current_hosts.val)
                      removed_hosts == iter_str(current_hosts.val \ hosts)
                      rem[i \in 0..Len(removed_hosts)] ==
                          IF i = 0 THEN r
                          ELSE NvmetSubsystem_disable_host(rem[i - 1], nqn, removed_hosts[i])
                      any == NvmetSubsystem_set_allow_any(rem[Len(removed_hosts)], nqn,
                                                          hosts = {})
                      add[i \in 0..Len(added_hosts)] ==
                          IF i = 0 THEN any
                          ELSE NvmetSubsystem_enable_host(add[i - 1], nqn, added_hosts[i])
                  IN  add[Len(added_hosts)]

(* The ids of the namespaces, in the order of the BTreeMap.                *)
NvmetSubsystem_list_namespaces(t, nqn) ==
    IF nqn \notin DOMAIN t.subsystems THEN Err(IoError("ENOENT"))
    ELSE Ret(iter_int(DOMAIN t.subsystems[nqn].namespaces))

NvmetSubsystem_open_namespace_Unchecked(r, nqn, nsid) == r

NvmetSubsystem_open_namespace(r, nqn, nsid) ==
    IF Failed(r) THEN r
    ELSE IF assert_valid_nsid(nsid) # Ok THEN Fail(r, assert_valid_nsid(nsid))
    ELSE r

NvmetSubsystem_create_namespace(r, nqn, nsid) ==
    LET r1 == NvmetSubsystem_open_namespace(r, nqn, nsid)
    IN  IF Failed(r1) THEN r1
        ELSE IF HasNamespaceDir(r1.tree, nqn, nsid)
             THEN Fail(r1, Error("ExistingNamespace", <<nsid, nqn>>))
        ELSE create_dir_namespace(r1, nqn, nsid)

NvmetSubsystem_delete_namespace(r, nqn, nsid) ==
    IF Failed(r) THEN r
    ELSE IF ~HasNamespaceDir(r.tree, nqn, nsid)
         THEN Fail(r, Error("NoSuchNamespace", <<nsid, nqn>>))
    ELSE remove_dir_namespace(NvmetNamespace_set_enabled(r, nqn, nsid, FALSE), nqn, nsid)

(* The scan at the head of set_namespaces: every namespace of the          *)
(* subsystem, or the first error of list_namespaces and get_namespace.     *)
NvmetSubsystem_current_namespaces(t, nqn) ==
    LET Collect(ids, got) ==
            LET bad == {i \in 1..Len(ids) : got[ids[i]].err # Ok}
            IN  IF bad # {} THEN got[ids[CHOOSE i \in bad : \A j \in bad : i <= j]]
                ELSE Ret([nsid \in Range(ids) |-> got[nsid].val])
        List(ids) ==
            IF ids.err # Ok THEN ids
            ELSE Collect(ids.val, [nsid \in Range(ids.val) |->
                                      NvmetNamespace_get_namespace(t, nqn, nsid)])
    IN  List(NvmetSubsystem_list_namespaces(t, nqn))

NvmetSubsystem_set_namespaces(r, nqn, nses) ==
    LET Set(removed, changed, added) ==
            LET rem[i \in 0..Len(removed)] ==
                    IF i = 0 THEN r
                    ELSE NvmetSubsystem_delete_namespace(rem[i - 1], nqn, removed[i])
                chg[i \in 0..Len(changed)] ==
                    IF i = 0 THEN rem[Len(removed)]
                    ELSE NvmetNamespace_set_namespace(
                             NvmetSubsystem_open_namespace(chg[i - 1], nqn, changed[i]),
                             nqn, changed[i], nses[changed[i]])
                add[i \in 0..Len(added)] ==
                    IF i = 0 THEN chg[Len(changed)]
                    ELSE NvmetNamespace_set_namespace(
                             NvmetSubsystem_create_namespace(add[i - 1], nqn, added[i]),
                             nqn, added[i], nses[added[i]])
            IN  add[Len(added)]
        Diff(delta) == Set(iter_int(delta.removed), iter_int(delta.changed),
                           iter_int(delta.added))
        Scan(current) ==
            IF current.err # Ok THEN Fail(r, current.err)
            ELSE Diff(get_btreemap_differences(current.val, nses))
    IN  IF Failed(r) THEN r
        ELSE Scan(NvmetSubsystem_current_namespaces(r.tree, nqn))

NvmetSubsystem_get_model(t, nqn) ==
    IF nqn \notin DOMAIN t.subsystems THEN Err(IoError("ENOENT"))
    ELSE Ret(read_str(t.subsystems[nqn].attr_model))

NvmetSubsystem_set_model(r, nqn, model) ==
    IF Failed(r) THEN r
    ELSE IF assert_valid_model(model) # Ok THEN Fail(r, assert_valid_model(model))
    ELSE write_str_subsystem(r, nqn, "attr_model", model)

NvmetSubsystem_get_serial(t, nqn) ==
    IF nqn \notin DOMAIN t.subsystems THEN Err(IoError("ENOENT"))
    ELSE Ret(read_str(t.subsystems[nqn].attr_serial))

NvmetSubsystem_set_serial(r, nqn, serial) ==
    IF Failed(r) THEN r
    ELSE IF assert_valid_serial(serial) # Ok THEN Fail(r, assert_valid_serial(serial))
    ELSE write_str_subsystem(r, nqn, "attr_serial", serial)

-----------------------------------------------------------------------------
(* kernel/sysfs.rs: NvmetRoot                                              *)

NvmetRoot_check_exists(t) == IF t.exists THEN Ok ELSE Error("NoNvmetSysfs", "")

(* read_dir yields the entries in no stated order; the model lists them    *)
(* in ascending order.                                                     *)
NvmetRoot_list_ports(t) ==
    IF ~t.exists THEN Err(IoError("ENOENT")) ELSE Ret(iter_int(DOMAIN t.ports))

NvmetRoot_list_subsystems(t) ==
    IF ~t.exists THEN Err(IoError("ENOENT")) ELSE Ret(iter_str(DOMAIN t.subsystems))

NvmetRoot_list_used_hosts(t) ==
    IF NvmetRoot_list_subsystems(t).err # Ok THEN NvmetRoot_list_subsystems(t)
    ELSE Ret(UNION {t.subsystems[nqn].allowed_hosts : nqn \in DOMAIN t.subsystems})

NvmetRoot_remove_host(r, nqn) == remove_dir_host(r, nqn)

NvmetRoot_has_port(t, id) == id \in DOMAIN t.ports

NvmetRoot_create_port(r, id) == create_dir_port(r, id)

NvmetRoot_delete_port_NoUnlink(r, id) ==
    IF Failed(r) THEN r
    ELSE IF ~NvmetRoot_has_port(r.tree, id) THEN Fail(r, Error("NoSuchPort", id))
    ELSE LET subs == iter_str(NvmetPort_list_subsystems(r.tree, id).val)
             dis[i \in 0..Len(subs)] ==
                 IF i = 0 THEN r ELSE NvmetPort_disable_subsystem(dis[i - 1], id, subs[i])
         IN  remove_dir_port(dis[0], id)

NvmetRoot_delete_port(r, id) ==
    IF Failed(r) THEN r
    ELSE IF ~NvmetRoot_has_port(r.tree, id) THEN Fail(r, Error("NoSuchPort", id))
    ELSE LET subs == iter_str(NvmetPort_list_subsystems(r.tree, id).val)
             dis[i \in 0..Len(subs)] ==
                 IF i = 0 THEN r ELSE NvmetPort_disable_subsystem(dis[i - 1], id, subs[i])
         IN  remove_dir_port(dis[Len(subs)], id)

NvmetRoot_has_subsystem(t, nqn) == nqn \in DOMAIN t.subsystems

NvmetRoot_open_subsystem(r, nqn) ==
    IF Failed(r) THEN r
    ELSE IF assert_valid_nqn(nqn) # Ok THEN Fail(r, assert_valid_nqn(nqn))
    ELSE r

NvmetRoot_create_subsystem(r, nqn) ==
    create_dir_subsystem(NvmetRoot_open_subsystem(r, nqn), nqn)

NvmetRoot_delete_subsystem(r, nqn) ==
    IF Failed(r) THEN r
    ELSE IF assert_valid_nqn(nqn) # Ok THEN Fail(r, assert_valid_nqn(nqn))
    ELSE IF ~NvmetRoot_has_subsystem(r.tree, nqn) THEN Fail(r, Error("NoSuchSubsystem", nqn))
    ELSE LET hosts == iter_str(NvmetSubsystem_list_hosts(r.tree, nqn).val)
             nses == NvmetSubsystem_list_namespaces(r.tree, nqn).val
             dis[i \in 0..Len(hosts)] ==
                 IF i = 0 THEN r ELSE NvmetSubsystem_disable_host(dis[i - 1], nqn, hosts[i])
             del[i \in 0..Len(nses)] ==
                 IF i = 0 THEN dis[Len(hosts)]
                 ELSE NvmetSubsystem_delete_namespace(del[i - 1], nqn, nses[i])
         IN  remove_dir_subsystem(del[Len(nses)], nqn)

-----------------------------------------------------------------------------
(* kernel/mod.rs: KernelConfig                                             *)

gather_ports(t) ==
    LET Typed(types) ==
            [id \in {p \in DOMAIN t.ports : types[p].err = Ok} |->
                Port(types[id].val, NvmetPort_list_subsystems(t, id).val)]
    IN  Typed([id \in DOMAIN t.ports |-> NvmetPort_get_type(t, id)])

gather_subsystem(t, nqn) ==
    LET Compose(namespaces, model, serial, allowed_hosts) ==
            IF namespaces.err # Ok THEN namespaces
            ELSE IF model.err # Ok THEN model
            ELSE IF serial.err # Ok THEN serial
            ELSE IF allowed_hosts.err # Ok THEN allowed_hosts
            ELSE Ret(Subsystem(Some(model.val), Some(serial.val), allowed_hosts.val,
                               namespaces.val))
    IN  Compose(NvmetSubsystem_current_namespaces(t, nqn), NvmetSubsystem_get_model(t, nqn),
                NvmetSubsystem_get_serial(t, nqn), NvmetSubsystem_list_hosts(t, nqn))

gather_state(t) ==
    LET Collect(nqns, got) ==
            LET bad == {i \in 1..Len(nqns) : got[nqns[i]].err # Ok}
            IN  IF bad # {} THEN got[nqns[CHOOSE i \in bad : \A j \in bad : i <= j]]
                ELSE Ret(State([nqn \in Range(nqns) |-> got[nqn].val], gather_ports(t)))
        Exists(e) ==
            IF e # Ok THEN Err(e)
            ELSE Collect(NvmetRoot_list_subsystems(t).val,
                         [nqn \in DOMAIN t.subsystems |-> gather_subsystem(t, nqn)])
    IN  Exists(NvmetRoot_check_exists(t))

apply_AddPort(r, id, port) ==
    LET Link(typed, subs) ==
            LET bad == {i \in 1..Len(subs) : assert_valid_nqn(subs[i]) # Ok}
            IN  IF Failed(typed) THEN typed
                ELSE IF bad # {}
                THEN Fail(typed,
                          assert_valid_nqn(subs[CHOOSE i \in bad : \A j \in bad : i <= j]))
                ELSE NvmetPort_set_subsystems(typed, id, port.subsystems)
    IN  Link(NvmetPort_set_type(NvmetRoot_create_port(r, id), id, port.port_type),
             iter_str(port.subsystems))

apply_PortDelta(r, id, delta) ==
    CASE delta.kind = "UpdatePortType" -> NvmetPort_set_type(r, id, delta.port_type)
      [] delta.kind = "AddSubsystem" -> NvmetPort_enable_subsystem(r, id, delta.nqn)
      [] delta.kind = "RemoveSubsystem" -> NvmetPort_disable_subsystem(r, id, delta.nqn)

apply_UpdatePort(r, id, ds) ==
    IF ~NvmetRoot_has_port(r.tree, id) THEN Fail(r, Error("NoSuchPort", id))
    ELSE LET step[i \in 0..Len(ds)] ==
                 IF i = 0 THEN r ELSE apply_PortDelta(step[i - 1], id, ds[i])
         IN  step[Len(ds)]

apply_RemovePort(r, id) == NvmetRoot_delete_port(r, id)

apply_AddSubsystem_Unchecked(r, nqn, sub) ==
    LET SetModel(q) ==
            IF IsSome(sub.model) THEN NvmetSubsystem_set_model(q, nqn, Unwrap(sub.model))
            ELSE q
        SetSerial(q) ==
            IF IsSome(sub.serial) THEN NvmetSubsystem_set_serial(q, nqn, Unwrap(sub.serial))
            ELSE q
    IN  NvmetSubsystem_set_hosts(
                 NvmetSubsystem_set_namespaces(
                     SetSerial(SetModel(NvmetRoot_create_subsystem(r, nqn))),
                     nqn, sub.namespaces),
                 nqn, sub.allowed_hosts)

apply_AddSubsystem_HostsFirst(r, nqn, sub) ==
    LET SetModel(q) ==
            IF IsSome(sub.model) THEN NvmetSubsystem_set_model(q, nqn, Unwrap(sub.model))
            ELSE q
        SetSerial(q) ==
            IF IsSome(sub.serial) THEN NvmetSubsystem_set_serial(q, nqn, Unwrap(sub.serial))
            ELSE q
    IN  IF NvmetRoot_has_subsystem(r.tree, nqn) THEN Fail(r, Error("ExistingSubsystem", nqn))
        ELSE NvmetSubsystem_set_namespaces(
                 NvmetSubsystem_set_hosts(
                     SetSerial(SetModel(NvmetRoot_create_subsystem(r, nqn))),
                     nqn, sub.allowed_hosts),
                 nqn, sub.namespaces)

apply_AddSubsystem(r, nqn, sub) ==
    LET SetModel(q) ==
            IF IsSome(sub.model) THEN NvmetSubsystem_set_model(q, nqn, Unwrap(sub.model))
            ELSE q
        SetSerial(q) ==
            IF IsSome(sub.serial) THEN NvmetSubsystem_set_serial(q, nqn, Unwrap(sub.serial))
            ELSE q
    IN  IF NvmetRoot_has_subsystem(r.tree, nqn) THEN Fail(r, Error("ExistingSubsystem", nqn))
        ELSE NvmetSubsystem_set_hosts(
                 NvmetSubsystem_set_namespaces(
                     SetSerial(SetModel(NvmetRoot_create_subsystem(r, nqn))),
                     nqn, sub.namespaces),
                 nqn, sub.allowed_hosts)

apply_SubsystemDelta(r, nqn, delta) ==
    CASE delta.kind = "UpdateModel" -> NvmetSubsystem_set_model(r, nqn, delta.model)
      [] delta.kind = "UpdateSerial" -> NvmetSubsystem_set_serial(r, nqn, delta.serial)
      [] delta.kind = "AddHost" -> NvmetSubsystem_enable_host(r, nqn, delta.host)
      [] delta.kind = "RemoveHost" -> NvmetSubsystem_disable_host(r, nqn, delta.host)
      [] delta.kind = "AddNamespace" ->
            NvmetNamespace_set_namespace(
                NvmetSubsystem_create_namespace(r, nqn, delta.nsid), nqn, delta.nsid, delta.ns)
      [] delta.kind = "UpdateNamespace" ->
            NvmetNamespace_set_namespace(
                NvmetSubsystem_open_namespace(r, nqn, delta.nsid), nqn, delta.nsid, delta.ns)
      [] delta.kind = "RemoveNamespace" ->
            NvmetSubsystem_delete_namespace(r, nqn, delta.nsid)

apply_UpdateSubsystem_Unchecked(r, nqn, ds) ==
    LET nvmetsub == NvmetRoot_open_subsystem(r, nqn)
             step[i \in 0..Len(ds)] ==
                 IF i = 0 THEN nvmetsub ELSE apply_SubsystemDelta(step[i - 1], nqn, ds[i])
         IN  step[Len(ds)]

apply_UpdateSubsystem(r, nqn, ds) ==
    IF ~NvmetRoot_has_subsystem(r.tree, nqn) THEN Fail(r, Error("NoSuchSubsystem", nqn))
    ELSE LET nvmetsub == NvmetRoot_open_subsystem(r, nqn)
             step[i \in 0..Len(ds)] ==
                 IF i = 0 THEN nvmetsub ELSE apply_SubsystemDelta(step[i - 1], nqn, ds[i])
         IN  step[Len(ds)]

(* NvmetRoot::list_hosts, which RemoveSubsystem calls, is not in sysfs.rs. *)
(* The global host set it returns is the set of hosts that some subsystem  *)
(* references, which is what list_used_hosts computes.                     *)
NvmetRoot_list_hosts(t) == NvmetRoot_list_used_hosts(t)

apply_RemoveSubsystem_DifferenceReversed(r, nqn) ==
    LET Collect(deleted, unused, our_hosts) ==
            LET gc[i \in 0..Len(unused)] ==
                    IF i = 0 THEN deleted
                    ELSE IF unused[i] \in our_hosts
                         THEN NvmetRoot_remove_host(gc[i - 1], unused[i])
                    ELSE gc[i - 1]
            IN  gc[Len(unused)]
        Deleted(deleted, prev_hosts, our_hosts) ==
            IF Failed(deleted) THEN deleted
            ELSE Collect(deleted,
                         iter_str(NvmetRoot_list_hosts(deleted.tree).val \ prev_hosts),
                         our_hosts)
        Unlink(q, port) ==
            IF Failed(q) THEN q
            ELSE IF NvmetPort_has_subsystem(q.tree, port, nqn)
                 THEN NvmetPort_disable_subsystem(q, port, nqn)
            ELSE q
        Remove(prev_hosts, opened, our_hosts, ports) ==
            LET dis[i \in 0..Len(ports)] ==
                    IF i = 0 THEN opened ELSE Unlink(dis[i - 1], ports[i])
            IN  IF prev_hosts.err # Ok THEN Fail(r, prev_hosts.err)
                ELSE IF Failed(opened) THEN opened
                ELSE IF our_hosts.err # Ok THEN Fail(r, our_hosts.err)
                ELSE Deleted(NvmetRoot_delete_subsystem(dis[Len(ports)], nqn),
                             prev_hosts.val, our_hosts.val)
    IN  IF ~NvmetRoot_has_subsystem(r.tree, nqn) THEN Fail(r, Error("NoSuchSubsystem", nqn))
        ELSE Remove(NvmetRoot_list_hosts(r.tree), NvmetRoot_open_subsystem(r, nqn),
                    NvmetSubsystem_list_hosts(r.tree, nqn), NvmetRoot_list_ports(r.tree).val)

apply_RemoveSubsystem_PortsLeftLinked(r, nqn) ==
    LET Collect(deleted, unused, our_hosts) ==
            LET gc[i \in 0..Len(unused)] ==
                    IF i = 0 THEN deleted
                    ELSE IF unused[i] \in our_hosts
                         THEN NvmetRoot_remove_host(gc[i - 1], unused[i])
                    ELSE gc[i - 1]
            IN  gc[Len(unused)]
        Deleted(deleted, prev_hosts, our_hosts) ==
            IF Failed(deleted) THEN deleted
            ELSE Collect(deleted,
                         iter_str(prev_hosts \ NvmetRoot_list_hosts(deleted.tree).val),
                         our_hosts)
        Unlink(q, port) == q
        Remove(prev_hosts, opened, our_hosts, ports) ==
            LET dis[i \in 0..Len(ports)] ==
                    IF i = 0 THEN opened ELSE Unlink(dis[i - 1], ports[i])
            IN  IF prev_hosts.err # Ok THEN Fail(r, prev_hosts.err)
                ELSE IF Failed(opened) THEN opened
                ELSE IF our_hosts.err # Ok THEN Fail(r, our_hosts.err)
                ELSE Deleted(NvmetRoot_delete_subsystem(dis[Len(ports)], nqn),
                             prev_hosts.val, our_hosts.val)
    IN  IF ~NvmetRoot_has_subsystem(r.tree, nqn) THEN Fail(r, Error("NoSuchSubsystem", nqn))
        ELSE Remove(NvmetRoot_list_hosts(r.tree), NvmetRoot_open_subsystem(r, nqn),
                    NvmetSubsystem_list_hosts(r.tree, nqn), NvmetRoot_list_ports(r.tree).val)

apply_RemoveSubsystem(r, nqn) ==
    LET Collect(deleted, unused, our_hosts) ==
            LET gc[i \in 0..Len(unused)] ==
                    IF i = 0 THEN deleted
                    ELSE IF unused[i] \in our_hosts
                         THEN NvmetRoot_remove_host(gc[i - 1], unused[i])
                    ELSE gc[i - 1]
            IN  gc[Len(unused)]
        Deleted(deleted, prev_hosts, our_hosts) ==
            IF Failed(deleted) THEN deleted
            ELSE Collect(deleted,
                         iter_str(prev_hosts \ NvmetRoot_list_hosts(deleted.tree).val),
                         our_hosts)
        Unlink(q, port) ==
            IF Failed(q) THEN q
            ELSE IF NvmetPort_has_subsystem(q.tree, port, nqn)
                 THEN NvmetPort_disable_subsystem(q, port, nqn)
            ELSE q
        Remove(prev_hosts, opened, our_hosts, ports) ==
            LET dis[i \in 0..Len(ports)] ==
                    IF i = 0 THEN opened ELSE Unlink(dis[i - 1], ports[i])
            IN  IF prev_hosts.err # Ok THEN Fail(r, prev_hosts.err)
                ELSE IF Failed(opened) THEN opened
                ELSE IF our_hosts.err # Ok THEN Fail(r, our_hosts.err)
                ELSE Deleted(NvmetRoot_delete_subsystem(dis[Len(ports)], nqn),
                             prev_hosts.val, our_hosts.val)
    IN  IF ~NvmetRoot_has_subsystem(r.tree, nqn) THEN Fail(r, Error("NoSuchSubsystem", nqn))
        ELSE Remove(NvmetRoot_list_hosts(r.tree), NvmetRoot_open_subsystem(r, nqn),
                    NvmetSubsystem_list_hosts(r.tree, nqn), NvmetRoot_list_ports(r.tree).val)

(* One turn of the loop of apply_delta: the d-th change of the list.       *)
apply_change(r, d, change) ==
    IF Failed(r) THEN r
    ELSE LET q == [r EXCEPT !.d = d]
         IN  CASE change.kind = "AddPort" -> apply_AddPort(q, change.id, change.port)
               [] change.kind = "UpdatePort" -> apply_UpdatePort(q, change.id, change.deltas)
               [] change.kind = "RemovePort" -> apply_RemovePort(q, change.id)
               [] change.kind = "AddSubsystem" -> apply_AddSubsystem(q, change.nqn, change.sub)
               [] change.kind = "UpdateSubsystem" ->
                     apply_UpdateSubsystem(q, change.nqn, change.deltas)
               [] change.kind = "RemoveSubsystem" -> apply_RemoveSubsystem(q, change.nqn)

apply_delta_Rollback(t, changes) ==
    LET step[d \in 0..Len(changes)] ==
            IF d = 0 THEN Begin(t) ELSE apply_change(step[d - 1], d, changes[d])
        Undo(r) == IF Failed(r) THEN [r EXCEPT !.tree = t] ELSE r
    IN  Undo(step[Len(changes)])

apply_delta(t, changes) ==
    LET step[d \in 0..Len(changes)] ==
            IF d = 0 THEN Begin(t) ELSE apply_change(step[d - 1], d, changes[d])
    IN  step[Len(changes)]

NoCall == [op |-> "none"]

DeltaInit ==
    /\ \/ level = "state" /\ base \in StateInputs /\ desired \in StateInputs
       \/ level = "subsystem" /\ base \in SubsystemInputs /\ desired \in SubsystemInputs
       \/ level = "port" /\ base \in PortInputs /\ desired \in PortInputs
    /\ deltas = <<>>
    /\ dpc = "input"
    /\ tree = NoNvmet
    /\ call = NoCall

StateGetDeltas ==
    /\ level = "state" /\ dpc = "input"
    /\ deltas' = State_get_deltas(base, desired)
    /\ dpc' = "diffed"
    /\ UNCHANGED <<level, base, desired, evars>>

SubsystemGetDeltas ==
    /\ level = "subsystem" /\ dpc = "input"
    /\ deltas' = Subsystem_get_deltas(base, desired)
    /\ dpc' = "diffed"
    /\ UNCHANGED <<level, base, desired, evars>>

PortGetDeltas ==
    /\ level = "port" /\ dpc = "input"
    /\ deltas' = Port_get_deltas(base, desired)
    /\ dpc' = "diffed"
    /\ UNCHANGED <<level, base, desired, evars>>

DeltaNext == StateGetDeltas \/ SubsystemGetDeltas \/ PortGetDeltas

DeltaSpec == DeltaInit /\ [][DeltaNext]_vars

-----------------------------------------------------------------------------
(* The commands that work on the kernel tree (bin/nvmet/state.rs) and the  *)
(* library call KernelConfig::apply_delta, which the other commands of     *)
(* bin/nvmet use with a list they build themselves.                        *)

NsNoUuid == Namespace(TRUE, "/dev/sdb", None, None)
NsNotBlock == Namespace(TRUE, "/etc/hostname", Some("uuid1"), Some("nguid1"))
NsMissing == Namespace(TRUE, "/dev/missing", Some("uuid1"), Some("nguid1"))

SubsystemA == Subsystem(Some(Model1), Some(Serial1), {"nqn.h1"}, (1 :> NsA))
SubsystemB == Subsystem(Some(Model2), Some(Serial1), {"nqn.h1", "nqn.h2"}, (1 :> NsNotBlock))
SubsystemC == Subsystem(None, Some(Serial1), {"nqn.h2"}, (1 :> NsNoUuid) @@ (2 :> NsA))
PortV4 == Port(Tcp(SocketAddrV4(Ip4Local, 4420)), {"nqn.a"})
PortV6 == Port(Rdma(SocketAddrV6(Ip6Local, 4420)), {})
PortLoop == Port(Loop, {"nqn.a", "nqn.b"})
PortFc == Port(FibreChannel(FibreChannelAddr(Wwnn1, Wwpn1)), {})

(* The states a snapshot file holds.                                       *)
RestoreInputs ==
    { State_default,
      State(("nqn.a" :> Subsystem_default), EmptyMap),
      State(("nqn.a" :> SubsystemA), (1 :> PortV4)),
      State(("nqn.a" :> SubsystemA) @@ ("nqn.b" :> SubsystemB), (1 :> PortFc)),
      State(("nqn.a" :> SubsystemC), (1 :> PortLoop)),
      State(("nqn.b" :> SubsystemC), (1 :> PortV6)) }

ConfigFile(version, state) == [version |-> version, state |-> state]
ConfigFileInputs ==
    {ConfigFile(0, d) : d \in RestoreInputs} \cup {ConfigFile(1, State_default)}

(* The lists the caller of apply_delta hands over.                         *)
ChangesInputs ==
    { <<AddSubsystem("nqn.b", SubsystemA), AddSubsystem("nqn.b", SubsystemA),
        RemoveSubsystem("nqn.a")>>,
      <<RemoveSubsystem("nqn.a")>>,
      <<UpdateSubsystem("nqn.a", <<UpdateModel(<<" ", "m2">>), AddHost("nqn.h2"),
                                   RemoveHost("nqn.h1")>>)>>,
      <<UpdateSubsystem("nqn.a", <<AddNamespace(2, NsNoUuid), UpdateNamespace(1, NsB),
                                   RemoveNamespace(2)>>),
        UpdateSubsystem("nqn.a", <<UpdateNamespace(1, NsMissing)>>)>>,
      <<UpdatePort(1, <<PortDelta_UpdatePortType(Loop), PortDelta_AddSubsystem("nqn.b"),
                        PortDelta_RemoveSubsystem("nqn.a")>>)>>,
      <<RemovePort(1), RemovePort(1)>> }

Call(op, input, changes, pre, err, log) ==
    [op |-> op, input |-> input, changes |-> changes, pre |-> pre, err |-> err, log |-> log]

Init ==
    /\ level = "executor"
    /\ base = State_default
    /\ desired = State_default
    /\ deltas = <<>>
    /\ dpc = "none"
    /\ tree \in {NoNvmet, EmptyNvmet}
    /\ call = NoCall

(* gather_state, get_deltas against the wanted state and, when the list is *)
(* not empty, apply_delta: the common part of Restore and Clear.           *)
Reconcile(op, input, want) ==
    \E current \in {gather_state(tree)} :
        IF current.err # Ok
        THEN /\ tree' = tree
             /\ call' = Call(op, input, <<>>, tree, current.err, <<>>)
        ELSE \E delta \in {State_get_deltas(current.val, want)} :
                IF Len(delta) = 0
                THEN /\ tree' = tree
                     /\ call' = Call(op, input, delta, tree, Ok, <<>>)
                ELSE \E r \in {apply_delta(tree, delta)} :
                        /\ tree' = r.tree
                        /\ call' = Call(op, input, delta, tree, r.err, r.log)

Restore ==
    \E config \in ConfigFileInputs :
        /\ level = "executor"
        /\ IF config.version # 0
           THEN /\ tree' = tree
                /\ call' = Call("Restore", config, <<>>, tree,
                                Error("UnsupportedConfigVersion", config.version), <<>>)
           ELSE Reconcile("Restore", config, config.state)
        /\ UNCHANGED dvars

Clear ==
    /\ level = "executor"
    /\ Reconcile("Clear", None, State_default)
    /\ UNCHANGED dvars

Save ==
    \E current \in {gather_state(tree)} :
        /\ level = "executor"
        /\ tree' = tree
        /\ call' = Call("Save", current.val, <<>>, tree, current.err, <<>>)
        /\ UNCHANGED dvars

ApplyDelta ==
    \E changes \in ChangesInputs :
        \E r \in {apply_delta(tree, changes)} :
            /\ level = "executor"
            /\ tree' = r.tree
            /\ call' = Call("apply_delta", None, changes, tree, r.err, r.log)
            /\ UNCHANGED dvars

Next == Restore \/ Clear \/ Save \/ ApplyDelta

Spec == Init /\ [][Next]_vars

-----------------------------------------------------------------------------
(* The same entry points on what their callers do not rule out: a snapshot *)
(* document as serde reads it from the file, lists with names and ids that *)
(* the validators reject, and a tree holding a port made with mkdir alone. *)

DiscoveryNqn == "nqn.2014-08.org.nvmexpress.discovery"

(* ports/2 as the kernel makes it: no transport type written yet.          *)
ForeignPortNvmet == [EmptyNvmet EXCEPT !.ports = (2 :> KernelNewPort)]

(* bin/nvmet/state.rs: serde_yaml::from_reader into ConfigFile. The        *)
(* version member is #[serde(default)]: 0 when the document has none.      *)
ConfigFile_from_reader(doc) ==
    ConfigFile(IF IsSome(doc.version) THEN Unwrap(doc.version) ELSE 0, doc.state)

Document(version, state) == [version |-> version, state |-> state]
DocumentInputs ==
    { Document(None, State(("nqn.a" :> SubsystemA), (1 :> PortV4))),
      Document(Some(0), State(("nqn.b" :> SubsystemC), (1 :> PortV6))),
      Document(Some(1), State(("nqn.a" :> SubsystemA), (1 :> PortV4))),
      Document(Some(2), State_default),
      Document(None, State((DiscoveryNqn :> Subsystem_default), EmptyMap)) }

LibChangesInputs ==
    { <<AddPort(1, Port(Loop, {"nqn.a", "nqn.U+00E9"}))>>,
      <<AddSubsystem("nqn.a", Subsystem_default), AddPort(1, Port(Loop, {"nqn.a"}))>>,
      <<AddSubsystem(DiscoveryNqn, Subsystem_default)>>,
      <<AddSubsystem("nqn.b", Subsystem(None, None, {}, (1 :> NsB) @@ (NsidAll :> NsA)))>>,
      <<UpdateSubsystem("nqn.a", <<AddNamespace(2, NsB), AddNamespace(0, NsA)>>)>> }

LibInit ==
    /\ level = "lib"
    /\ base = State_default
    /\ desired = State_default
    /\ deltas = <<>>
    /\ dpc = "none"
    /\ tree \in {NoNvmet, EmptyNvmet, ForeignPortNvmet}
    /\ call = NoCall

(* Restore that scans the tree before it looks at the version.             *)
LibRestore_ScanFirst ==
    \E doc \in DocumentInputs :
        \E config \in {ConfigFile_from_reader(doc)} :
            \E current \in {gather_state(tree)} :
                /\ level = "lib"
                /\ IF current.err # Ok
                   THEN /\ tree' = tree
                        /\ call' = Call("Restore", doc, <<>>, tree, current.err, <<>>)
                   ELSE IF config.version # 0
                   THEN /\ tree' = tree
                        /\ call' = Call("Restore", doc, <<>>, tree,
                                        Error("UnsupportedConfigVersion", config.version), <<>>)
                   ELSE Reconcile("Restore", doc, config.state)
                /\ UNCHANGED dvars

LibRestore ==
    \E doc \in DocumentInputs :
        \E config \in {ConfigFile_from_reader(doc)} :
            /\ level = "lib"
            /\ IF config.version # 0
               THEN /\ tree' = tree
                    /\ call' = Call("Restore", doc, <<>>, tree,
                                    Error("UnsupportedConfigVersion", config.version), <<>>)
               ELSE Reconcile("Restore", doc, config.state)
            /\ UNCHANGED dvars

LibSave ==
    \E current \in {gather_state(tree)} :
        /\ level = "lib"
        /\ tree' = tree
        /\ call' = Call("Save", current.val, <<>>, tree, current.err, <<>>)
        /\ UNCHANGED dvars

LibApplyDelta ==
    \E changes \in LibChangesInputs :
        \E r \in {apply_delta(tree, changes)} :
            /\ level = "lib"
            /\ tree' = r.tree
            /\ call' = Call("apply_delta", None, changes, tree, r.err, r.log)
            /\ UNCHANGED dvars

LibNext == LibRestore \/ LibSave \/ LibApplyDelta

LibSpec == LibInit /\ [][LibNext]_vars

-----------------------------------------------------------------------------
(* The validators and parsers on their own: texts and addresses drawn from *)
(* bounded sets, each given to the function it is an input of.             *)

(* NQN texts: nqn.<year><sep><month>.<rest> from the parts below, and the  *)
(* texts of the unit tests of helpers/validation.rs.                       *)
(* A word of 208 bytes: with the 15 bytes of LongHead before it a text of *)
(* 223 bytes.                                                              *)
Word52 == "aaaaaaaaaaaaaaaaaaaaaaaaaaaaaaaaaaaaaaaaaaaaaaaaaaaa"
LongWord == Word52 \o Word52 \o Word52 \o Word52
LongHead == <<"n", "q", "n", ".", "2", "0", "2", "3", "-", "1", "1", ".", "s", "h", ":">>

NqnHeads == {<<"n", "q", "n", ".">>, <<"n", "q", "x", ".">>}
NqnYears == {<<"2", "0", "2", "3">>, <<"a", "b", "c", "d">>, <<"+", "1", "2", "3">>,
             <<"2", "3", "_", "1">>}
NqnDashes == {<<"-">>, <<"_">>}
NqnMonths == {<<"1", "1">>, <<"0", "8">>, <<"1", "x">>, <<"x", "1">>, <<"e", "f">>}
NqnDots == {<<".">>, <<":">>}
NqnRests ==
    { <<"s", "h", ".", "t", "t", "y", ":", "u", "n", "i", "t", "-", "t", "e", "s", "t", "s">>,
      <<"a">>,
      <<"a", "p", "p", "l", "e", ":">>,
      <<":", "b", "a", "n", "a", "n", "a">>,
      <<"o", "r", "g", ".", "n", "v", "m", "e", "x", "p", "r", "e", "s", "s", ":", "b", "l", "a", "h">>,
      <<"s", "h", ".", "t", "t", "y", ":", "a", ":", "b">>,
      <<"s", "h", ":", "x">> }
NqnTexts ==
    { <<"b", "l", "e", "r", "g", "h">>,
      <<"n", "q", "n", ".", "2", "0", "2", "3", "-", "1", "1", ".", "a">>,
      <<"n", "q", "n", ".", "2", "0", "2", "3", "-", "1", "1", ".", "a", "b">>,
      <<"n", "q", "n", ".", "2", "0", "1", "4", "-", "0", "8", ".", "o", "r", "g", ".", "n", "v", "m", "e", "x", "p", "r", "e", "s", "s", ".", "d", "i", "s", "c", "o", "v", "e", "r", "y">>,
      <<"n", "q", "n", ".", "2", "0", "1", "4", "-", "0", "8", ".", "o", "r", "g", ".", "n", "v", "m", "e", "x", "p", "r", "e", "s", "s", ":", "u", "u", "i", "d", ":", "4", "2">>,
      <<"n", "q", "n", ".", "2", "0", "1", "4", "-", "0", "8", ".", "o", "r", "g", ".", "n", "v", "m", "e", "x", "p", "r", "e", "s", "s", ":", "u", "u", "i", "d", ":", "3", "9", "c", "d", "4", "8", "a", "6", "-", "d", "e", "e", "4", "-", "4", "e", "a", "a", "-", "a", "4", "1", "5", "-", "4", "e", "2", "1", "e", "7", "a", "7", "8", "9", "f", "9">>,
      <<"n", "q", "n", ".", "2", "0", "1", "4", "-", "0", "8", ".", "o", "r", "g", ".", "n", "v", "m", "e", "x", "p", "r", "e", "s", "s", ":", "u", "u", "i", "d", ":", "3", "9", "c", "d", "4", "8", "a", "6", "d", "e", "e", "4", "4", "e", "a", "a", "a", "4", "1", "5", "4", "e", "2", "1", "e", "7", "a", "7", "8", "9", "f", "9">>,
      <<"n", "q", "n", ".", "2", "0", "1", "4", "-", "0", "8", ".", "o", "r", "g", ".", "n", "v", "m", "e", "x", "p", "r", "e", "s", "s", ":", "u", "u", "i", "d", ":", "3", "9", "c", "d", "4", "8", "a", "6", "-", "d", "e", "e", "4", "-", "4", "e", "a", "a", "-", "a", "4", "1", "5", "-", "4", "e", "2", "1", "e", "7", "a", "7", "8", "9", "f", "g">>,
      <<"n", "q", "n", ".", "2", "0", "1", "4", "-", "0", "8", ".", "o", "r", "g", ".", "n", "v", "m", "e", "x", "p", "r", "e", "s", "s", ":", "u", "u", "i", "d", ":", "3", "9", "c", "d", "4", "8", "a", "6", "-", "d", "e", "e", "4", "-", "4", "e", "a", "a", "-", "a", "4", "1", "5", "_", "4", "e", "2", "1", "e", "7", "a", "7", "8", "9", "f", "9">> }
NqnInputs ==
    {h \o y \o d \o m \o p \o r :
        h \in NqnHeads, y \in NqnYears, d \in NqnDashes, m \in NqnMonths, p \in NqnDots,
        r \in NqnRests}
    \cup NqnTexts
    \cup {LongHead \o <<LongWord>>, LongHead \o <<LongWord \o "a">>}
    \cup {<<"nqn.U+00E9">>}

(* u64 values as 16 nibbles, with and without leading zero digits, and the *)
(* FibreChannelAddr values made of them.                                   *)
U64Inputs ==
    { <<0, 0, 0, 0, 0, 0, 0, 0, 0, 0, 0, 0, 0, 0, 0, 0>>,
      <<15, 15, 15, 15, 15, 15, 15, 15, 15, 15, 15, 15, 15, 15, 15, 15>>,
      <<1, 0, 0, 0, 0, 0, 0, 0, 4, 4, 0, 0, 1, 1, 2, 3>>,
      <<2, 0, 0, 0, 0, 0, 0, 0, 5, 5, 0, 0, 1, 1, 2, 3>>,
      <<0, 0, 0, 0, 0, 0, 0, 0, 0, 0, 0, 0, 0, 0, 0, 1>>,
      <<0, 0, 0, 0, 0, 0, 0, 0, 13, 14, 10, 13, 11, 14, 14, 15>>,
      <<15, 14, 13, 12, 11, 10, 9, 8, 7, 6, 5, 4, 3, 2, 1, 0>> }
FcAddrInputs == {FibreChannelAddr(wwnn, wwpn) : wwnn \in U64Inputs, wwpn \in U64Inputs}

(* Texts given to FibreChannelAddr::from_str: <head><radix><digits><mid>   *)
(* <radix><digits> from the parts below, and the texts of the unit tests   *)
(* of state/types.rs.                                                      *)
FcHeads ==
    { <<"n", "n", "-">>,
      <<"x", "x", "-">> }
FcRadixes == {<<"0", "x">>, <<"0", "y">>, <<>>}
FcDigits ==
    { <<"1", "0", "0", "0", "0", "0", "0", "0", "4", "4", "0", "0", "1", "1", "2", "3">>,
      <<"0", "0", "0", "0", "0", "0", "0", "0", "D", "E", "A", "D", "b", "e", "e", "f">>,
      <<"1", "0", "M", "E", "H", "0", "0", "0", "4", "4", "0", "0", "1", "1", "2", "3">>,
      <<"+", "0", "0", "0", "0", "0", "0", "0", "4", "4", "0", "0", "1", "1", "2", "3">> }
FcMids ==
    { <<":", "p", "n", "-">>,
      <<":", "x", "x", "-">> }
FcTexts ==
    { <<"n", "n", "-", "1", "0", "0", "0", "0", "0", "0", "0", "4", "4", "0", "0", "1", "1", ":", "p", "n", "-", "2", "0", "0", "0", "0", "0", "0", "0", "5", "5", "0", "0", "1", "1">>,
      <<"n", "n", "-", "1", "0", "M", "E", "H", "0", "0", "0", "4", "4", "0", "0", "1", "1", "2", "3", ":", "p", "n", "-", "2", "0", "0", "0", "0", "0", "0", "0", "5", "5", "0", "0", "1", "1", "2", "3">>,
      <<"n", "n", "-", "0", "x", "1", "0", "0", "0", "0", "0", "0", "0", "4", "4", "0", "0", "1", "1", "2", "3", ":", "p", "n", "-", "0", "x", "2", "0", "0", "0", "0", "0", "0", "0", "5", "5", "0", "0", "1", "1", "2", "3">>,
      <<"n", "n", "-", "1", "0", "0", "0", "0", "0", "0", "0", "4", "4", "0", "0", "1", "1", "2", "3", ":", "p", "n", "-", "2", "0", "0", "0", "0", "0", "0", "0", "5", "5", "0", "0", "1", "1", "2", "3">>,
      <<>> }
FcStrInputs ==
    {h \o x1 \o d1 \o m \o x2 \o d2 :
        h \in FcHeads, x1 \in FcRadixes, d1 \in FcDigits, m \in FcMids, x2 \in FcRadixes,
        d2 \in FcDigits}
    \cup FcTexts

ValidationInit ==
    /\ \/ level = "nqn" /\ base \in NqnInputs
       \/ level = "fc_addr" /\ base \in FcAddrInputs
       \/ level = "fc_str" /\ base \in FcStrInputs
    /\ desired = <<>>
    /\ deltas = <<>>
    /\ dpc = "input"
    /\ tree = NoNvmet
    /\ call = NoCall

AssertCompliantNqn ==
    /\ level = "nqn" /\ dpc = "input"
    /\ deltas' = assert_compliant_nqn(base)
    /\ dpc' = "checked"
    /\ UNCHANGED <<level, base, desired, evars>>

ToTraddr ==
    /\ level = "fc_addr" /\ dpc = "input"
    /\ desired' = FibreChannelAddr_to_traddr(base)
    /\ dpc' = "formatted"
    /\ UNCHANGED <<level, base, deltas, evars>>

(* from_str of the text to_traddr made, or of the text given.              *)
FromStr ==
    /\ \/ level = "fc_addr" /\ dpc = "formatted" /\ deltas' = FibreChannelAddr_from_str(desired)
       \/ level = "fc_str" /\ dpc = "input" /\ deltas' = FibreChannelAddr_from_str(base)
    /\ dpc' = "parsed"
    /\ UNCHANGED <<level, base, desired, evars>>

ValidationNext == AssertCompliantNqn \/ ToTraddr \/ FromStr

ValidationSpec == ValidationInit /\ [][ValidationNext]_vars

-----------------------------------------------------------------------------
(* The pure in-memory apply model of the delta kinds: each delta adds,     *)
(* replaces or removes exactly the entity or field it names.               *)


InMemPortDelta(p, d) ==
    CASE d.kind = "UpdatePortType"  -> [p EXCEPT !.port_type = d.port_type]
      [] d.kind = "AddSubsystem"    -> [p EXCEPT !.subsystems = @ \cup {d.nqn}]
      [] d.kind = "RemoveSubsystem" -> [p EXCEPT !.subsystems = @ \ {d.nqn}]

RECURSIVE InMemPort(_, _)
InMemPort(p, ds) ==
    IF ds = <<>> THEN p ELSE InMemPort(InMemPortDelta(p, Head(ds)), Tail(ds))

InMemSubsystemDelta(s, d) ==
    CASE d.kind = "UpdateModel"     -> [s EXCEPT !.model = Some(d.model)]
      [] d.kind = "UpdateSerial"    -> [s EXCEPT !.serial = Some(d.serial)]
      [] d.kind = "AddHost"         -> [s EXCEPT !.allowed_hosts = @ \cup {d.host}]
      [] d.kind = "RemoveHost"      -> [s EXCEPT !.allowed_hosts = @ \ {d.host}]
      [] d.kind = "AddNamespace"    -> [s EXCEPT !.namespaces = MapPut(@, d.nsid, d.ns)]
      [] d.kind = "UpdateNamespace" -> [s EXCEPT !.namespaces = MapPut(@, d.nsid, d.ns)]
      [] d.kind = "RemoveNamespace" -> [s EXCEPT !.namespaces = MapDel(@, d.nsid)]

RECURSIVE InMemSubsystem(_, _)
InMemSubsystem(s, ds) ==
    IF ds = <<>> THEN s ELSE InMemSubsystem(InMemSubsystemDelta(s, Head(ds)), Tail(ds))

InMemStateDelta(st, d) ==
    CASE d.kind = "AddPort"         -> [st EXCEPT !.ports = MapPut(@, d.id, d.port)]
      [] d.kind = "UpdatePort"      ->
            [st EXCEPT !.ports = MapPut(@, d.id, InMemPort(@[d.id], d.deltas))]
      [] d.kind = "RemovePort"      -> [st EXCEPT !.ports = MapDel(@, d.id)]
      [] d.kind = "AddSubsystem"    -> [st EXCEPT !.subsystems = MapPut(@, d.nqn, d.sub)]
      [] d.kind = "UpdateSubsystem" ->
            [st EXCEPT !.subsystems =
                MapPut(@, d.nqn, InMemSubsystem(@[d.nqn], d.deltas))]
      [] d.kind = "RemoveSubsystem" -> [st EXCEPT !.subsystems = MapDel(@, d.nqn)]

RECURSIVE InMemState(_, _)
InMemState(st, ds) ==
    IF ds = <<>> THEN st ELSE InMemState(InMemStateDelta(st, Head(ds)), Tail(ds))

StateDiffed == level = "state" /\ dpc = "diffed"
SubsystemDiffed == level = "subsystem" /\ dpc = "diffed"
PortDiffed == level = "port" /\ dpc = "diffed"

BothSubsystems == (DOMAIN base.subsystems) \cap (DOMAIN desired.subsystems)
BothPorts == (DOMAIN base.ports) \cap (DOMAIN desired.ports)

-----------------------------------------------------------------------------
(* C1 as stated: applying B.get_deltas(D) in order to a copy of B under    *)
(* the in-memory apply model yields exactly D, also when D has model or    *)
(* serial None where B has Some.                                           *)
C1_SoundnessAsStated ==
    StateDiffed => InMemState(base, deltas) = desired

(* D, except that a subsystem present in B and D keeps B's model (serial)  *)
(* where D's model (serial) is None.                                       *)
DesiredKeepingUnset ==
    [desired EXCEPT !.subsystems =
        [nqn \in DOMAIN desired.subsystems |->
            IF nqn \in DOMAIN base.subsystems
            THEN [desired.subsystems[nqn] EXCEPT
                    !.model = IF @ = None THEN base.subsystems[nqn].model ELSE @,
                    !.serial = IF @ = None THEN base.subsystems[nqn].serial ELSE @]
            ELSE desired.subsystems[nqn]]]

(* C1 amended: applying B.get_deltas(D) in order to a copy of B yields D,  *)
(* except that a subsystem present in both keeps B's model (serial) where  *)
(* D's model (serial) is None: no delta unsets a model or serial.          *)
C1_Soundness ==
    StateDiffed => InMemState(base, deltas) = DesiredKeepingUnset

C1_Witness ==
    /\ StateDiffed
    /\ \E nqn \in BothSubsystems :
          /\ base.subsystems[nqn].model # None
          /\ desired.subsystems[nqn].model = None
    /\ \E i \in 1..Len(deltas) : deltas[i].kind = "UpdateSubsystem" /\ deltas[i].deltas # <<>>
    /\ \E i \in 1..Len(deltas) : deltas[i].kind = "UpdatePort"

-----------------------------------------------------------------------------
(* Positions of a delta list holding a given kind, and their keys.         *)
At(ds, kind) == {i \in 1..Len(ds) : ds[i].kind = kind}
IdsOf(ds, kind) == {ds[i].id : i \in At(ds, kind)}
NqnsOf(ds, kind) == {ds[i].nqn : i \in At(ds, kind)}

TopRank(d) ==
    CASE d.kind = "RemovePort"      -> 1
      [] d.kind = "RemoveSubsystem" -> 2
      [] d.kind = "UpdateSubsystem" -> 3
      [] d.kind = "AddSubsystem"    -> 4
      [] d.kind = "UpdatePort"      -> 5
      [] d.kind = "AddPort"         -> 6
TopKey(d) == IF d.kind \in {"RemovePort", "UpdatePort", "AddPort"} THEN d.id ELSE StrRank(d.nqn)

(* C3: B.get_deltas(D) is the concatenation, in this order, of RemovePort  *)
(* (ids in B only), RemoveSubsystem (NQNs in B only), UpdateSubsystem      *)
(* (NQNs in both, values differing), AddSubsystem (NQNs in D only),        *)
(* UpdatePort (ids in both, values differing), AddPort (ids in D only),    *)
(* keys ascending inside each group, the Add deltas carrying D's value.    *)
C3_TopLevelOrder ==
    StateDiffed =>
      /\ \A i, j \in 1..Len(deltas) : i < j =>
            \/ TopRank(deltas[i]) < TopRank(deltas[j])
            \/ /\ TopRank(deltas[i]) = TopRank(deltas[j])
               /\ TopKey(deltas[i]) < TopKey(deltas[j])
      /\ IdsOf(deltas, "RemovePort") = (DOMAIN base.ports) \ (DOMAIN desired.ports)
      /\ NqnsOf(deltas, "RemoveSubsystem") =
            (DOMAIN base.subsystems) \ (DOMAIN desired.subsystems)
      /\ NqnsOf(deltas, "UpdateSubsystem") =
            {n \in BothSubsystems : base.subsystems[n] # desired.subsystems[n]}
      /\ NqnsOf(deltas, "AddSubsystem") =
            (DOMAIN desired.subsystems) \ (DOMAIN base.subsystems)
      /\ IdsOf(deltas, "UpdatePort") = {i \in BothPorts : base.ports[i] # desired.ports[i]}
      /\ IdsOf(deltas, "AddPort") = (DOMAIN desired.ports) \ (DOMAIN base.ports)
      /\ \A i \in At(deltas, "AddSubsystem") :
            deltas[i].sub = desired.subsystems[deltas[i].nqn]
      /\ \A i \in At(deltas, "AddPort") : deltas[i].port = desired.ports[deltas[i].id]

C3_Witness ==
    /\ StateDiffed
    /\ Cardinality({TopRank(deltas[i]) : i \in 1..Len(deltas)}) >= 3
    /\ Cardinality(At(deltas, "RemovePort")) = 2

(* C4: no AddPort references an NQN whose AddSubsystem comes later in the  *)
(* list, and inside an UpdatePort payload no AddSubsystem is followed by a *)
(* RemoveSubsystem: removals, then the type update, then additions.        *)
PortRank(d) ==
    CASE d.kind = "RemoveSubsystem" -> 1
      [] d.kind = "UpdatePortType"  -> 2
      [] d.kind = "AddSubsystem"    -> 3

C4_DeltaOrdering ==
    StateDiffed =>
      /\ \A i \in At(deltas, "AddPort") : \A j \in At(deltas, "AddSubsystem") :
            deltas[j].nqn \in deltas[i].port.subsystems => j < i
      /\ \A u \in At(deltas, "UpdatePort") :
            \A i, j \in 1..Len(deltas[u].deltas) :
                i < j => PortRank(deltas[u].deltas[i]) <= PortRank(deltas[u].deltas[j])

C4_Witness ==
    /\ StateDiffed
    /\ \E i \in At(deltas, "AddPort") : \E j \in At(deltas, "AddSubsystem") :
            deltas[j].nqn \in deltas[i].port.subsystems
    /\ \E u \in At(deltas, "UpdatePort") :
            {PortRank(deltas[u].deltas[i]) : i \in 1..Len(deltas[u].deltas)} = {1, 2, 3}

(* C5: get_deltas of a State, a Port or a Subsystem against an equal value *)
(* is the empty list.                                                      *)
C5_DeltaIdentity == (dpc = "diffed" /\ base = desired) => deltas = <<>>

C5_Witness ==
    /\ StateDiffed /\ base = desired
    /\ DOMAIN base.subsystems = SubNqns
    /\ DOMAIN base.ports # {}

(* C6: B.get_deltas(D) holds no UpdateSubsystem and no UpdatePort whose    *)
(* sub-delta list is empty.                                                *)
C6_NoEmptyUpdate ==
    StateDiffed =>
        \A i \in At(deltas, "UpdateSubsystem") \cup At(deltas, "UpdatePort") :
            deltas[i].deltas # <<>>

(* C7: Subsystem::get_deltas emits UpdateModel(m) exactly when the desired *)
(* model is Some(m) and differs from the base model, UpdateSerial(s)       *)
(* exactly when the desired serial is Some(s) and differs from the base    *)
(* serial; a transition from Some to None emits neither.                   *)
C7_ModelSerial ==
    SubsystemDiffed =>
      /\ {deltas[i].model : i \in At(deltas, "UpdateModel")} =
            IF desired.model # None /\ desired.model # base.model
            THEN {Unwrap(desired.model)} ELSE {}
      /\ {deltas[i].serial : i \in At(deltas, "UpdateSerial")} =
            IF desired.serial # None /\ desired.serial # base.serial
            THEN {Unwrap(desired.serial)} ELSE {}
      /\ Cardinality(At(deltas, "UpdateModel")) <= 1
      /\ Cardinality(At(deltas, "UpdateSerial")) <= 1

C7_Witness ==
    /\ SubsystemDiffed
    /\ base.model = Some(Model1) /\ desired.model = None
    /\ base.serial = None /\ desired.serial = Some(Serial1)
    /\ At(deltas, "UpdateModel") = {} /\ At(deltas, "UpdateSerial") # {}

(* C8: Port::get_deltas emits RemoveSubsystem for every NQN in B only,     *)
(* then UpdatePortType(D.port_type) iff the types differ, then             *)
(* AddSubsystem for every NQN in D only; so at the type update the port    *)
(* links exactly the subsystems that B and D share.                        *)
C8_PortOrder ==
    PortDiffed =>
      /\ \A i, j \in 1..Len(deltas) : i < j =>
            \/ PortRank(deltas[i]) < PortRank(deltas[j])
            \/ /\ PortRank(deltas[i]) = PortRank(deltas[j])
               /\ StrRank(deltas[i].nqn) < StrRank(deltas[j].nqn)
      /\ NqnsOf(deltas, "RemoveSubsystem") = base.subsystems \ desired.subsystems
      /\ NqnsOf(deltas, "AddSubsystem") = desired.subsystems \ base.subsystems
      /\ {deltas[i].port_type : i \in At(deltas, "UpdatePortType")} =
            IF base.port_type # desired.port_type THEN {desired.port_type} ELSE {}
      /\ \A i \in At(deltas, "UpdatePortType") :
            InMemPort(base, SubSeq(deltas, 1, i - 1)).subsystems =
                base.subsystems \cap desired.subsystems

C8_Witness ==
    /\ PortDiffed
    /\ Cardinality(At(deltas, "RemoveSubsystem")) >= 1
    /\ Cardinality(At(deltas, "AddSubsystem")) >= 2
    /\ At(deltas, "UpdatePortType") # {}
    /\ base.subsystems \cap desired.subsystems # {}

(* C9: Subsystem::get_deltas emits its sub-deltas in the order UpdateModel,*)
(* UpdateSerial, AddHost (ascending), RemoveNamespace, UpdateNamespace     *)
(* (carrying D's namespace), AddNamespace, RemoveHost.                     *)
SubRank(d) ==
    CASE d.kind = "UpdateModel"     -> 1
      [] d.kind = "UpdateSerial"    -> 2
      [] d.kind = "AddHost"         -> 3
      [] d.kind = "RemoveNamespace" -> 4
      [] d.kind = "UpdateNamespace" -> 5
      [] d.kind = "AddNamespace"    -> 6
      [] d.kind = "RemoveHost"      -> 7

C9_SubsystemOrder ==
    SubsystemDiffed =>
      /\ \A i, j \in 1..Len(deltas) : i < j => SubRank(deltas[i]) <= SubRank(deltas[j])
      /\ \A i, j \in At(deltas, "AddHost") :
            i < j => StrRank(deltas[i].host) < StrRank(deltas[j].host)
      /\ {deltas[i].host : i \in At(deltas, "AddHost")} =
            desired.allowed_hosts \ base.allowed_hosts
      /\ {deltas[i].host : i \in At(deltas, "RemoveHost")} =
            base.allowed_hosts \ desired.allowed_hosts
      /\ {deltas[i].nsid : i \in At(deltas, "RemoveNamespace")} =
            (DOMAIN base.namespaces) \ (DOMAIN desired.namespaces)
      /\ {deltas[i].nsid : i \in At(deltas, "AddNamespace")} =
            (DOMAIN desired.namespaces) \ (DOMAIN base.namespaces)
      /\ {deltas[i].nsid : i \in At(deltas, "UpdateNamespace")} =
            {n \in (DOMAIN base.namespaces) \cap (DOMAIN desired.namespaces) :
                base.namespaces[n] # desired.namespaces[n]}
      /\ \A i \in At(deltas, "UpdateNamespace") :
            deltas[i].ns = desired.namespaces[deltas[i].nsid]

C9_Witness ==
    /\ SubsystemDiffed
    /\ Cardinality(At(deltas, "AddHost")) = 2
    /\ Cardinality({SubRank(deltas[i]) : i \in 1..Len(deltas)}) >= 5
    /\ At(deltas, "UpdateNamespace") # {}

-----------------------------------------------------------------------------
(* The commands that went as far as apply_delta.                           *)
Reconciled == call.op \in {"Restore", "Clear"} /\ call.err = Ok
Wanted == IF call.op = "Restore" THEN call.input.state ELSE State_default
Applied == call.op \in {"Restore", "Clear", "apply_delta"} /\ call.changes # <<>>

(* C2: executor idempotence. Once a Restore (or Clear) has gathered the    *)
(* tree, diffed it against the desired state and apply_delta has returned  *)
(* Ok, gathering and diffing again against the same desired state gives    *)
(* the empty list.                                                         *)
C2_ExecutorIdempotence ==
    Reconciled => State_get_deltas(gather_state(tree).val, Wanted) = <<>>

-----------------------------------------------------------------------------
(* What the entries of a log do to a tree, entry by entry: the effects     *)
(* that a call reports to have made.                                       *)
IdOf(name) == CHOOSE i \in -1..9 : ToString(i) = name

ReplayEntry(t, e) ==
    LET p == e.path
    IN  CASE e.op = "error" -> t
          [] e.op = "create_dir" /\ p[1] = "ports" ->
                [t EXCEPT !.ports = MapPut(@, IdOf(p[2]), KernelNewPort)]
          [] e.op = "create_dir" /\ p[1] = "hosts" -> [t EXCEPT !.hosts = @ \cup {p[2]}]
          [] e.op = "create_dir" /\ p[1] = "subsystems" /\ Len(p) = 2 ->
                [t EXCEPT !.subsystems = MapPut(@, p[2], KernelNewSubsystem)]
          [] e.op = "create_dir" /\ p[1] = "subsystems" /\ Len(p) = 4 ->
                [t EXCEPT !.subsystems[p[2]].namespaces =
                              MapPut(@, IdOf(p[4]), KernelNewNamespace)]
          [] e.op = "remove_dir" /\ p[1] = "ports" ->
                [t EXCEPT !.ports = MapDel(@, IdOf(p[2]))]
          [] e.op = "remove_dir" /\ p[1] = "hosts" -> [t EXCEPT !.hosts = @ \ {p[2]}]
          [] e.op = "remove_dir" /\ p[1] = "subsystems" /\ Len(p) = 2 ->
                [t EXCEPT !.subsystems = MapDel(@, p[2])]
          [] e.op = "remove_dir" /\ p[1] = "subsystems" /\ Len(p) = 4 ->
                [t EXCEPT !.subsystems[p[2]].namespaces = MapDel(@, IdOf(p[4]))]
          [] e.op = "symlink" /\ p[1] = "ports" ->
                [t EXCEPT !.ports[IdOf(p[2])].subsystems = @ \cup {p[4]}]
          [] e.op = "symlink" /\ p[1] = "subsystems" ->
                [t EXCEPT !.subsystems[p[2]].allowed_hosts = @ \cup {p[4]}]
          [] e.op = "remove_file" /\ p[1] = "ports" ->
                [t EXCEPT !.ports[IdOf(p[2])].subsystems = @ \ {p[4]}]
          [] e.op = "remove_file" /\ p[1] = "subsystems" ->
                [t EXCEPT !.subsystems[p[2]].allowed_hosts = @ \ {p[4]}]
          [] e.op = "write" /\ p[1] = "ports" ->
                [t EXCEPT !.ports[IdOf(p[2])][p[3]] = Unwrap(e.val)]
          [] e.op = "write" /\ p[1] = "subsystems" /\ Len(p) = 3 ->
                [t EXCEPT !.subsystems[p[2]][p[3]] = Unwrap(e.val)]
          [] e.op = "write" /\ p[1] = "subsystems" /\ Len(p) = 5 ->
                [t EXCEPT !.subsystems[p[2]].namespaces[IdOf(p[4])][p[5]] = Unwrap(e.val)]

RECURSIVE Replay(_, _)
Replay(t, log) == IF log = <<>> THEN t ELSE Replay(ReplayEntry(t, Head(log)), Tail(log))

(* The entity a top-level delta names, as the head of a path. A subsystem  *)
(* delta also acts on the links of the ports to it and on hosts/.          *)
Touches(change, path) ==
    IF change.kind \in {"AddPort", "UpdatePort", "RemovePort"}
    THEN SubSeq(path, 1, 2) = PortPath(change.id)
    ELSE \/ SubSeq(path, 1, 2) = SubsystemPath(change.nqn)
         \/ path[1] = "hosts"
         \/ change.kind = "RemoveSubsystem" /\ path[1] = "ports" /\ path[Len(path)] = change.nqn

Errors(log) == {i \in 1..Len(log) : log[i].op = "error"}

(* C10: apply_delta works through the list in order and stops at the first *)
(* failing delta. The steps it made are those of deltas at increasing      *)
(* positions of the list, each on the entity its delta names; when it      *)
(* returns Ok no step failed; when it returns an error, that error is the  *)
(* one failed step, it is the last step, and the deltas before the failing *)
(* one are those that apply_delta completes with Ok; in both cases the     *)
(* tree is the tree before the call with every step made applied to it:    *)
(* nothing is rolled back.                                                 *)
C10_StopsAtFirstFailure ==
    Applied =>
      /\ \A i \in 1..Len(call.log) : call.log[i].d \in 1..Len(call.changes)
      /\ \A i, j \in 1..Len(call.log) : i < j => call.log[i].d <= call.log[j].d
      /\ \A i \in 1..Len(call.log) :
            call.log[i].op # "error" => Touches(call.changes[call.log[i].d], call.log[i].path)
      /\ call.err = Ok => Errors(call.log) = {}
      /\ call.err # Ok =>
            /\ Errors(call.log) = {Len(call.log)}
            /\ call.log[Len(call.log)].val = call.err
            /\ apply_delta(call.pre,
                           SubSeq(call.changes, 1, call.log[Len(call.log)].d - 1)).err = Ok
      /\ tree = Replay(call.pre, call.log)

(* A call that failed in the middle of the list: a delta before the        *)
(* failing one had effects, the failing delta had completed steps, a later *)
(* delta was never started.                                                *)
C10_Witness ==
    /\ Applied
    /\ call.err # Ok
    /\ call.log[Len(call.log)].d < Len(call.changes)
    /\ \E i \in 1..Len(call.log) : call.log[i].d < call.log[Len(call.log)].d
    /\ \E i \in 1..(Len(call.log) - 1) : call.log[i].d = call.log[Len(call.log)].d
    /\ tree # call.pre

-----------------------------------------------------------------------------
(* C11: every core operation first requires the nvmet root. A command run  *)
(* while the root is missing fails with NoNvmetSysfs and leaves no trace:  *)
(* no step is made on the tree, the only thing recorded is the error. (A   *)
(* Restore of an unsupported config version ends before any core           *)
(* operation.)                                                             *)
CoreOperation ==
    \/ call.op \in {"Save", "Clear", "apply_delta"}
    \/ call.op = "Restore" /\ call.input.version = 0

C11_RootRequired ==
    (CoreOperation /\ ~call.pre.exists) =>
      /\ call.err = Error("NoNvmetSysfs", "")
      /\ tree = call.pre
      /\ \A i \in 1..Len(call.log) : call.log[i].op = "error"

-----------------------------------------------------------------------------
(* The tree as the k-th delta of the call left it, read from the steps the *)
(* call made, and the deltas of the call that ran to their end.            *)
StepsUpTo(k) == Cardinality({i \in 1..Len(call.log) : call.log[i].d <= k})
TreeAfter(k) == Replay(call.pre, SubSeq(call.log, 1, StepsUpTo(k)))
Completed(k) ==
    /\ Applied
    /\ k \in 1..Len(call.changes)
    /\ call.err # Ok => k < call.log[Len(call.log)].d
CompletedOf(kind) == {k \in 1..10 : Completed(k) /\ call.changes[k].kind = kind}

AllowedBy(t, nqns) == UNION {t.subsystems[n].allowed_hosts : n \in nqns}

(* C12: orphan host garbage collection. After a successful                 *)
(* RemoveSubsystem(nqn) the host directories removed are exactly the hosts *)
(* that nqn allowed and that no remaining subsystem allows: a host another *)
(* subsystem still references stays, and so does every host directory nqn  *)
(* did not reference.                                                      *)
C12_OrphanHosts ==
    \A k \in CompletedOf("RemoveSubsystem") :
        LET nqn == call.changes[k].nqn
            before == TreeAfter(k - 1)
            after == TreeAfter(k)
        IN  after.hosts =
                before.hosts \
                    (before.subsystems[nqn].allowed_hosts
                        \ AllowedBy(before, DOMAIN before.subsystems \ {nqn}))

(* Subsystems A and B both allow h: removing A keeps hosts/h, removing B   *)
(* afterwards removes it.                                                  *)
C12_Witness ==
    \E k1, k2 \in CompletedOf("RemoveSubsystem") : \E h \in HostNqns :
        /\ k1 < k2
        /\ h \in TreeAfter(k1 - 1).subsystems[call.changes[k1].nqn].allowed_hosts
        /\ h \in TreeAfter(k2 - 1).subsystems[call.changes[k2].nqn].allowed_hosts
        /\ h \in TreeAfter(k1).hosts
        /\ h \notin TreeAfter(k2).hosts

(* A host directory that the removed subsystem did not reference, and no   *)
(* other subsystem does, is left in place.                                 *)
C12_WitnessUnreferenced ==
    \E k \in CompletedOf("RemoveSubsystem") : \E h \in TreeAfter(k).hosts :
        h \notin AllowedBy(TreeAfter(k - 1), DOMAIN TreeAfter(k - 1).subsystems)

-----------------------------------------------------------------------------
(* The steps of the k-th delta, as positions of the log, and the deltas    *)
(* of a kind that the call started.                                        *)
StepsOf(k) == {i \in 1..Len(call.log) : call.log[i].d = k}
StartedOf(kind) ==
    {k \in 1..10 : /\ Applied
                   /\ k \in 1..Len(call.changes)
                   /\ call.changes[k].kind = kind
                   /\ call.err # Ok => k <= call.log[Len(call.log)].d}
LinkingPorts(t, nqn) == {id \in DOMAIN t.ports : nqn \in t.ports[id].subsystems}

(* C13: RemoveSubsystem(nqn) unlinks nqn from every port that references   *)
(* it, detaches every allowed host and removes every namespace directory   *)
(* before it removes subsystems/<nqn>, so the removal of an existing       *)
(* subsystem is never refused; after it no port links nqn and the          *)
(* directory is gone.                                                      *)
C13_RemoveSubsystemOrder ==
    \A k \in StartedOf("RemoveSubsystem") :
        LET nqn == call.changes[k].nqn
            before == TreeAfter(k - 1)
            after == TreeAfter(k)
            removal == {i \in StepsOf(k) : /\ call.log[i].op = "remove_dir"
                                           /\ call.log[i].path = SubsystemPath(nqn)}
            Earlier(op, path) ==
                \E i \in StepsOf(k) : /\ call.log[i].op = op
                                      /\ call.log[i].path = path
                                      /\ \A j \in removal : i < j
        IN  nqn \in DOMAIN before.subsystems =>
              /\ Completed(k)
              /\ Cardinality(removal) = 1
              /\ \A id \in LinkingPorts(before, nqn) :
                    Earlier("remove_file", PortPath(id) \o <<"subsystems", nqn>>)
              /\ \A h \in before.subsystems[nqn].allowed_hosts :
                    Earlier("remove_file", SubsystemPath(nqn) \o <<"allowed_hosts", h>>)
              /\ \A nsid \in DOMAIN before.subsystems[nqn].namespaces :
                    Earlier("remove_dir", NamespacePath(nqn, nsid))
              /\ nqn \notin DOMAIN after.subsystems
              /\ LinkingPorts(after, nqn) = {}
              /\ \A id \in DOMAIN before.ports :
                    after.ports[id].subsystems = before.ports[id].subsystems \ {nqn}

(* A subsystem linked by a port, with an allowed host and a namespace, is  *)
(* removed.                                                                *)
C13_Witness ==
    \E k \in CompletedOf("RemoveSubsystem") :
        LET nqn == call.changes[k].nqn
            before == TreeAfter(k - 1)
        IN  /\ LinkingPorts(before, nqn) # {}
            /\ before.subsystems[nqn].allowed_hosts # {}
            /\ DOMAIN before.subsystems[nqn].namespaces # {}
            /\ nqn \notin DOMAIN tree.subsystems

-----------------------------------------------------------------------------
(* The tree after the first m steps of the k-th delta, the number of       *)
(* steps the delta made, and its m-th step.                                *)
TreeWithin(k, m) == Replay(call.pre, SubSeq(call.log, 1, StepsUpTo(k - 1) + m))
StepsMade(k) == Cardinality({i \in StepsOf(k) : call.log[i].op # "error"})
StepWithin(k, m) == call.log[StepsUpTo(k - 1) + m]

(* What the attribute files of a port hold when its type is port_type.     *)
TypeStored(p, port_type) ==
    CASE port_type.tag = "Loop" -> p.addr_trtype = <<"loop">>
      [] port_type.tag \in {"Tcp", "Rdma"} ->
            /\ p.addr_trtype = (IF port_type.tag = "Tcp" THEN <<"tcp">> ELSE <<"rdma">>)
            /\ p.addr_adrfam = (IF port_type.addr.fam = "V6" THEN <<"ipv6">> ELSE <<"ipv4">>)
            /\ p.addr_traddr = IpAddr_to_string(port_type.addr)
            /\ p.addr_trsvcid = fmt_dec(port_type.addr.port)
      [] port_type.tag = "FibreChannel" ->
            /\ p.addr_trtype = <<"fc">>
            /\ p.addr_adrfam = <<"fc">>
            /\ p.addr_traddr = FibreChannelAddr_to_traddr(port_type.addr)
            /\ p.addr_trsvcid = <<"none">>

TypeUpdates(ds) == {j \in 1..Len(ds) : ds[j].kind = "UpdatePortType"}

(* C14: UpdatePortType on a port unlinks every subsystem of the port, then *)
(* writes the transport attributes while no subsystem is linked, then      *)
(* links every subsystem it had unlinked. On an existing port it is never  *)
(* refused; after it the port links the subsystems it linked before and    *)
(* its attribute files hold the requested type.                            *)
C14_UpdatePortType ==
    \A k \in StartedOf("UpdatePort") :
        LET id == call.changes[k].id
            ds == call.changes[k].deltas
            j == CHOOSE j \in TypeUpdates(ds) : \A i \in TypeUpdates(ds) : j <= i
            p == j - 1
            links == TreeWithin(k, p).ports[id].subsystems
            n == Cardinality(links)
            w == IF ds[j].port_type.tag = "Loop" THEN 1 ELSE 4
        IN  (/\ TypeUpdates(ds) # {}
             /\ id \in DOMAIN TreeAfter(k - 1).ports
             /\ StepsMade(k) >= p) =>
              /\ StepsMade(k) >= p + n + w + n
              /\ \A m \in (p + 1)..(p + n) :
                    /\ StepWithin(k, m).op = "remove_file"
                    /\ SubSeq(StepWithin(k, m).path, 1, 3) = PortPath(id) \o <<"subsystems">>
              /\ \A m \in (p + n + 1)..(p + n + w) :
                    /\ StepWithin(k, m).op = "write"
                    /\ SubSeq(StepWithin(k, m).path, 1, 2) = PortPath(id)
                    /\ TreeWithin(k, m - 1).ports[id].subsystems = {}
              /\ \A m \in (p + n + w + 1)..(p + n + w + n) :
                    /\ StepWithin(k, m).op = "symlink"
                    /\ SubSeq(StepWithin(k, m).path, 1, 3) = PortPath(id) \o <<"subsystems">>
              /\ TreeWithin(k, p + n + w + n).ports[id].subsystems = links
              /\ TypeStored(TreeWithin(k, p + n + w + n).ports[id], ds[j].port_type)

(* A port that links a subsystem changes its type.                         *)
C14_Witness ==
    \E k \in StartedOf("UpdatePort") :
        LET id == call.changes[k].id
            ds == call.changes[k].deltas
        IN  /\ ds[1].kind = "UpdatePortType"
            /\ id \in DOMAIN TreeAfter(k - 1).ports
            /\ TreeAfter(k - 1).ports[id].subsystems # {}
            /\ ~TypeStored(TreeAfter(k - 1).ports[id], ds[1].port_type)
            /\ StepsMade(k) >= 3

-----------------------------------------------------------------------------
(* Steps on a namespace: a write to one of its device files or the removal *)
(* of its directory, and the writes to its enable file.                    *)
DeviceFiles == {"device_path", "device_uuid", "device_nguid"}
IsNamespaceEdit(e) ==
    \/ e.op = "write" /\ Len(e.path) = 5 /\ e.path[3] = "namespaces" /\ e.path[5] \in DeviceFiles
    \/ e.op = "remove_dir" /\ Len(e.path) = 4 /\ e.path[3] = "namespaces"
IsEnableWrite(e, nsdir) ==
    e.op = "write" /\ e.path = nsdir \o <<"enable">>
ShowBool(b) == IF b THEN <<"1">> ELSE <<"0">>

(* The namespaces an UpdateSubsystem sets and does not touch again: the    *)
(* positions of its AddNamespace and UpdateNamespace deltas that no later  *)
(* delta of the list names.                                                *)
NamespacesSet(ds) ==
    {j \in 1..Len(ds) :
        /\ ds[j].kind \in {"AddNamespace", "UpdateNamespace"}
        /\ \A i \in (j + 1)..Len(ds) :
              ds[i].kind \in {"AddNamespace", "UpdateNamespace", "RemoveNamespace"}
                  => ds[i].nsid # ds[j].nsid}

(* C15: namespace disable-before-edit. Every write to a namespace's        *)
(* device_path, device_uuid or device_nguid, and every removal of a        *)
(* namespace directory, is made while the namespace's enable file holds 0, *)
(* and the same delta has written that 0 before; after a successful        *)
(* AddNamespace or UpdateNamespace(nsid, ns), and after a successful       *)
(* AddSubsystem, enable holds ns.enabled.                                  *)
C15_DisableBeforeEdit ==
    Applied =>
      /\ \A i \in 1..Len(call.log) :
            IsNamespaceEdit(call.log[i]) =>
                LET nsdir == SubSeq(call.log[i].path, 1, 4)
                    nqn == nsdir[2]
                    nsid == IdOf(nsdir[4])
                    t == Replay(call.pre, SubSeq(call.log, 1, i - 1))
                IN  /\ t.subsystems[nqn].namespaces[nsid].enable = <<"0">>
                    /\ \E j \in 1..(i - 1) :
                          /\ call.log[j].d = call.log[i].d
                          /\ IsEnableWrite(call.log[j], nsdir)
                          /\ call.log[j].val = Some(<<"0">>)
                          /\ \A m \in (j + 1)..(i - 1) : ~IsEnableWrite(call.log[m], nsdir)
      /\ \A k \in CompletedOf("UpdateSubsystem") :
            \A j \in NamespacesSet(call.changes[k].deltas) :
                LET delta == call.changes[k].deltas[j]
                IN  TreeAfter(k).subsystems[call.changes[k].nqn].namespaces[delta.nsid].enable
                        = ShowBool(delta.ns.enabled)
      /\ \A k \in CompletedOf("AddSubsystem") :
            \A nsid \in DOMAIN call.changes[k].sub.namespaces :
                TreeAfter(k).subsystems[call.changes[k].nqn].namespaces[nsid].enable
                    = ShowBool(call.changes[k].sub.namespaces[nsid].enabled)

(* An enabled namespace is given another device and left disabled, as the  *)
(* delta asks.                                                             *)
C15_Witness ==
    \E k \in CompletedOf("UpdateSubsystem") :
        \E j \in NamespacesSet(call.changes[k].deltas) :
            LET delta == call.changes[k].deltas[j]
                nqn == call.changes[k].nqn
            IN  /\ delta.kind = "UpdateNamespace"
                /\ ~delta.ns.enabled
                /\ TreeAfter(k - 1).subsystems[nqn].namespaces[delta.nsid].enable = <<"1">>
                /\ TreeAfter(k - 1).subsystems[nqn].namespaces[delta.nsid].device_path
                       # TreeAfter(k).subsystems[nqn].namespaces[delta.nsid].device_path
                /\ tree.subsystems[nqn].namespaces[delta.nsid].enable = <<"0">>

-----------------------------------------------------------------------------
(* A namespace whose device set_device_path refuses, and the error it      *)
(* refuses it with.                                                        *)
BadDevice(ns) == ~PathExists(ns.device_path) \/ ~is_block_device(ns.device_path)
DeviceError(ns) ==
    IF PathExists(ns.device_path) THEN Error("InvalidDevice", ns.device_path)
    ELSE IoError("ENOENT")
DevicesOf(nsfiles) == [f \in DeviceFiles |-> nsfiles[f]]

(* C16: device-path validation. An AddNamespace (of an absent namespace)   *)
(* or UpdateNamespace (of a present one) whose device_path does not exist  *)
(* or is not a block device fails, with InvalidDevice when the file exists *)
(* and is no block device; it writes none of device_path, device_uuid and  *)
(* device_nguid and leaves the namespace with enable = 0, which ends the   *)
(* call. No namespace of the tree is ever enabled on anything but a block  *)
(* device.                                                                 *)
C16_DeviceValidation ==
    /\ \A k \in StartedOf("UpdateSubsystem") :
          LET nqn == call.changes[k].nqn
              ds == call.changes[k].deltas
              before == TreeAfter(k - 1)
              run[i \in 0..Len(ds)] ==
                  IF i = 0 THEN Begin(before)
                  ELSE apply_SubsystemDelta(run[i - 1], nqn, ds[i])
          IN  nqn \in DOMAIN before.subsystems =>
                \A j \in 1..Len(ds) :
                    (/\ ds[j].kind \in {"AddNamespace", "UpdateNamespace"}
                     /\ BadDevice(ds[j].ns)
                     /\ ~Failed(run[j - 1])
                     /\ HasNamespaceDir(run[j - 1].tree, nqn, ds[j].nsid)
                            <=> ds[j].kind = "UpdateNamespace") =>
                      LET nsid == ds[j].nsid
                          was == IF ds[j].kind = "UpdateNamespace"
                                 THEN run[j - 1].tree.subsystems[nqn].namespaces[nsid]
                                 ELSE KernelNewNamespace
                          now == tree.subsystems[nqn].namespaces[nsid]
                      IN  /\ run[j].err = DeviceError(ds[j].ns)
                          /\ \A i \in (Len(run[j - 1].log) + 1)..Len(run[j].log) :
                                ~IsNamespaceEdit(run[j].log[i])
                          /\ call.err = DeviceError(ds[j].ns)
                          /\ call.log[Len(call.log)].d = k
                          /\ tree = run[j].tree
                          /\ now.enable = <<"0">>
                          /\ DevicesOf(now) = DevicesOf(was)
    /\ call.op # "none" =>
          \A nqn \in DOMAIN tree.subsystems :
              \A nsid \in DOMAIN tree.subsystems[nqn].namespaces :
                  tree.subsystems[nqn].namespaces[nsid].enable = <<"1">> =>
                      tree.subsystems[nqn].namespaces[nsid].device_path
                          \in {<<dev>> : dev \in BlockDevices}

(* An enabled namespace is updated to a file that is no block device.      *)
C16_Witness ==
    \E k \in StartedOf("UpdateSubsystem") :
        \E j \in 1..Len(call.changes[k].deltas) :
            LET delta == call.changes[k].deltas[j]
                nqn == call.changes[k].nqn
            IN  /\ delta.kind = "UpdateNamespace"
                /\ BadDevice(delta.ns)
                /\ nqn \in DOMAIN TreeAfter(k - 1).subsystems
                /\ HasNamespaceDir(TreeAfter(k - 1), nqn, delta.nsid)
                /\ TreeAfter(k - 1).subsystems[nqn].namespaces[delta.nsid].enable = <<"1">>
                /\ call.err = Error("InvalidDevice", delta.ns.device_path)
                /\ tree.subsystems[nqn].namespaces[delta.nsid].enable = <<"0">>

(* A namespace is updated to a device that does not exist.                 *)
C16_WitnessMissing ==
    \E k \in StartedOf("UpdateSubsystem") :
        \E j \in 1..Len(call.changes[k].deltas) :
            LET delta == call.changes[k].deltas[j]
            IN  /\ delta.kind = "UpdateNamespace"
                /\ ~PathExists(delta.ns.device_path)
                /\ call.err = IoError("ENOENT")
                /\ call.log[Len(call.log) - 1].path
                       = NamespacePath(call.changes[k].nqn, delta.nsid) \o <<"enable">>

-----------------------------------------------------------------------------
(* The steps of a log on the allowed hosts of a subsystem.                 *)
FlagWrites(log, nqn) ==
    {i \in 1..Len(log) : /\ log[i].op = "write"
                         /\ log[i].path = SubsystemPath(nqn) \o <<"attr_allow_any_host">>}
HostSteps(log, nqn, op) ==
    {i \in 1..Len(log) : /\ log[i].op = op
                         /\ Len(log[i].path) = 4
                         /\ SubSeq(log[i].path, 1, 3) = SubsystemPath(nqn) \o <<"allowed_hosts">>}
HostsStepped(log, nqn, op) == {log[i].path[4] : i \in HostSteps(log, nqn, op)}

(* What set_hosts must have done on a log: one write of the flag, 1 iff    *)
(* the desired set is empty, after the removal of every host that is not   *)
(* desired and before the addition of every host that is new.              *)
FlagBetween(log, nqn, current, hosts) ==
    /\ Cardinality(FlagWrites(log, nqn)) = 1
    /\ \A i \in FlagWrites(log, nqn) :
          /\ log[i].val = Some(ShowBool(hosts = {}))
          /\ \A j \in HostSteps(log, nqn, "remove_file") : j < i
          /\ \A j \in HostSteps(log, nqn, "symlink") : i < j
    /\ HostsStepped(log, nqn, "remove_file") = current \ hosts
    /\ HostsStepped(log, nqn, "symlink") = hosts \ current

(* C17: set_hosts writes attr_allow_any_host once, 1 iff the desired set   *)
(* of allowed hosts is empty and 0 otherwise, after every host removal and *)
(* before every host addition: in every AddSubsystem that ran to its end,  *)
(* and for every subsystem of the tree and every desired set.              *)
C17_AllowAnyHost ==
    /\ \A k \in CompletedOf("AddSubsystem") :
          LET nqn == call.changes[k].nqn
              steps == SubSeq(call.log, StepsUpTo(k - 1) + 1, StepsUpTo(k))
          IN  /\ FlagBetween(steps, nqn, {}, call.changes[k].sub.allowed_hosts)
              /\ TreeAfter(k).subsystems[nqn].attr_allow_any_host
                     = ShowBool(call.changes[k].sub.allowed_hosts = {})
              /\ TreeAfter(k).subsystems[nqn].allowed_hosts
                     = call.changes[k].sub.allowed_hosts
    /\ call.op # "none" =>
          \A nqn \in DOMAIN tree.subsystems : \A hosts \in SUBSET HostNqns :
              LET done == NvmetSubsystem_set_hosts(Begin(tree), nqn, hosts)
              IN  /\ ~Failed(done)
                  /\ FlagBetween(done.log, nqn, tree.subsystems[nqn].allowed_hosts, hosts)
                  /\ done.tree.subsystems[nqn].attr_allow_any_host = ShowBool(hosts = {})
                  /\ done.tree.subsystems[nqn].allowed_hosts = hosts

(* A subsystem is added with an allowed host, and the tree holds a         *)
(* subsystem whose hosts another desired set would remove.                 *)
C17_Witness ==
    /\ \E k \in CompletedOf("AddSubsystem") : call.changes[k].sub.allowed_hosts # {}
    /\ \E nqn \in DOMAIN tree.subsystems : tree.subsystems[nqn].allowed_hosts # {}

-----------------------------------------------------------------------------
(* C18: UpdatePort(id, _) and RemovePort(id) on a port id that does not    *)
(* exist fail with NoSuchPort(id) and make no step on the tree. RemovePort *)
(* on an existing port is never refused: it unlinks every subsystem of the *)
(* port and then removes the port directory, and leaves the subsystems,    *)
(* the hosts and the other ports as they were.                             *)
C18_PortExistence ==
    /\ \A k \in StartedOf("UpdatePort") \cup StartedOf("RemovePort") :
          LET id == call.changes[k].id
          IN  id \notin DOMAIN TreeAfter(k - 1).ports =>
                /\ call.err = Error("NoSuchPort", id)
                /\ call.log[Len(call.log)].d = k
                /\ StepsMade(k) = 0
                /\ tree = TreeAfter(k - 1)
    /\ \A k \in StartedOf("RemovePort") :
          LET id == call.changes[k].id
              before == TreeAfter(k - 1)
              after == TreeAfter(k)
              n == Cardinality(before.ports[id].subsystems)
          IN  id \in DOMAIN before.ports =>
                /\ Completed(k)
                /\ StepsMade(k) = n + 1
                /\ {StepWithin(k, m).path : m \in 1..n}
                       = {PortPath(id) \o <<"subsystems", nqn>> : nqn \in before.ports[id].subsystems}
                /\ \A m \in 1..n : StepWithin(k, m).op = "remove_file"
                /\ StepWithin(k, n + 1).op = "remove_dir"
                /\ StepWithin(k, n + 1).path = PortPath(id)
                /\ after.ports = MapDel(before.ports, id)
                /\ after.subsystems = before.subsystems
                /\ after.hosts = before.hosts

(* A port that links a subsystem is removed, and the removal of the port   *)
(* that is then missing fails.                                             *)
C18_Witness ==
    \E k \in CompletedOf("RemovePort") :
        /\ TreeAfter(k - 1).ports[call.changes[k].id].subsystems # {}
        /\ k + 1 \in StartedOf("RemovePort")
        /\ call.changes[k + 1].id = call.changes[k].id
        /\ call.err = Error("NoSuchPort", call.changes[k].id)

(* An UpdatePort names a port that does not exist.                         *)
C18_WitnessUpdate ==
    \E k \in StartedOf("UpdatePort") :
        /\ call.pre.exists
        /\ call.changes[k].id \notin DOMAIN TreeAfter(k - 1).ports
        /\ call.err = Error("NoSuchPort", call.changes[k].id)

-----------------------------------------------------------------------------
(* C19: AddSubsystem(nqn, s) when subsystems/<nqn> exists fails with       *)
(* ExistingSubsystem(nqn) and makes no step: the existing subsystem and    *)
(* the rest of the tree stay as they were.                                 *)
C19_ExistingSubsystem ==
    \A k \in StartedOf("AddSubsystem") :
        LET nqn == call.changes[k].nqn
        IN  nqn \in DOMAIN TreeAfter(k - 1).subsystems =>
              /\ call.err = Error("ExistingSubsystem", nqn)
              /\ call.log[Len(call.log)].d = k
              /\ StepsMade(k) = 0
              /\ tree = TreeAfter(k - 1)
              /\ tree.subsystems[nqn] = TreeAfter(k - 1).subsystems[nqn]

(* The subsystem that exists is not the one the delta would add.           *)
C19_Witness ==
    \E k \in StartedOf("AddSubsystem") :
        LET nqn == call.changes[k].nqn
        IN  /\ nqn \in DOMAIN TreeAfter(k - 1).subsystems
            /\ call.err = Error("ExistingSubsystem", nqn)
            /\ tree.subsystems[nqn].allowed_hosts # call.changes[k].sub.allowed_hosts
            /\ DOMAIN tree.subsystems[nqn].namespaces
                   # DOMAIN call.changes[k].sub.namespaces

-----------------------------------------------------------------------------
(* C20: UpdateSubsystem(nqn, _) and RemoveSubsystem(nqn) on a subsystem    *)
(* that does not exist fail with NoSuchSubsystem(nqn) before any step: no  *)
(* port link, host directory or other subsystem is changed.                *)
C20_NoSuchSubsystem ==
    \A k \in StartedOf("UpdateSubsystem") \cup StartedOf("RemoveSubsystem") :
        LET nqn == call.changes[k].nqn
        IN  nqn \notin DOMAIN TreeAfter(k - 1).subsystems =>
              /\ call.err = Error("NoSuchSubsystem", nqn)
              /\ call.log[Len(call.log)].d = k
              /\ StepsMade(k) = 0
              /\ tree = TreeAfter(k - 1)

(* An update and a removal name a missing subsystem while the tree holds a *)
(* port, a host and another subsystem.                                     *)
C20_Witness ==
    \E k \in StartedOf("UpdateSubsystem") :
        /\ call.changes[k].nqn \notin DOMAIN TreeAfter(k - 1).subsystems
        /\ call.err = Error("NoSuchSubsystem", call.changes[k].nqn)
        /\ DOMAIN tree.subsystems # {}
        /\ DOMAIN tree.ports # {}
        /\ tree.hosts # {}

C20_WitnessRemove ==
    \E k \in StartedOf("RemoveSubsystem") :
        /\ call.changes[k].nqn \notin DOMAIN TreeAfter(k - 1).subsystems
        /\ call.err = Error("NoSuchSubsystem", call.changes[k].nqn)
        /\ DOMAIN tree.subsystems # {}
        /\ tree.hosts # {}

-----------------------------------------------------------------------------
(* C21: AddPort(id, p) validates every NQN of p.subsystems first: when one *)
(* of them is invalid the delta fails before ports/<id> is made, before an *)
(* attribute is written and before a subsystem is linked, so the tree is   *)
(* the tree before the delta.                                              *)
C21_AddPortValidatesFirst ==
    \A k \in StartedOf("AddPort") :
        (/\ call.pre.exists
         /\ \E nqn \in call.changes[k].port.subsystems : assert_valid_nqn(nqn) # Ok) =>
            /\ call.err # Ok
            /\ StepsMade(k) = 0
            /\ TreeAfter(k) = TreeAfter(k - 1)

-----------------------------------------------------------------------------
(* The steps a run made after the first n of its log, without the index of *)
(* the delta.                                                              *)
StepsAfter(run, n) ==
    [i \in 1..(Len(run.log) - n) |-> <<run.log[n + i].op, run.log[n + i].path>>]

(* C22: host attach and detach. An AddHost(h) sub-delta that succeeds      *)
(* makes hosts/<h> only when it is missing and then links it from the      *)
(* subsystem's allowed_hosts; a RemoveHost(h) that succeeds removes that   *)
(* one link: hosts/<h> stays, and so does every link of another subsystem. *)
(* Nothing else of the tree changes in either.                             *)
C22_HostAttachDetach ==
    \A k \in StartedOf("UpdateSubsystem") :
        LET nqn == call.changes[k].nqn
            ds == call.changes[k].deltas
            before == TreeAfter(k - 1)
            run[i \in 0..Len(ds)] ==
                IF i = 0 THEN Begin(before)
                ELSE apply_SubsystemDelta(run[i - 1], nqn, ds[i])
        IN  nqn \in DOMAIN before.subsystems =>
              /\ run[Len(ds)].tree = TreeAfter(k)
              /\ \A j \in 1..Len(ds) :
                    (ds[j].kind \in {"AddHost", "RemoveHost"} /\ ~Failed(run[j])) =>
                      LET h == ds[j].host
                          was == run[j - 1].tree
                          now == run[j].tree
                          steps == StepsAfter(run[j], Len(run[j - 1].log))
                          link == SubsystemPath(nqn) \o <<"allowed_hosts", h>>
                      IN  IF ds[j].kind = "AddHost"
                          THEN /\ now = [was EXCEPT !.hosts = @ \cup {h},
                                             !.subsystems[nqn].allowed_hosts = @ \cup {h}]
                               /\ steps = (IF h \in was.hosts THEN <<>>
                                           ELSE << <<"create_dir", HostPath(h)>> >>)
                                          \o << <<"symlink", link>> >>
                          ELSE /\ h \in was.subsystems[nqn].allowed_hosts
                               /\ now = [was EXCEPT !.subsystems[nqn].allowed_hosts = @ \ {h}]
                               /\ steps = << <<"remove_file", link>> >>

(* A host is detached from one subsystem while another subsystem links it. *)
C22_Witness ==
    \E k \in CompletedOf("UpdateSubsystem") :
        \E j \in 1..Len(call.changes[k].deltas) :
            LET delta == call.changes[k].deltas[j]
                nqn == call.changes[k].nqn
            IN  /\ delta.kind = "RemoveHost"
                /\ delta.host \in TreeAfter(k - 1).subsystems[nqn].allowed_hosts
                /\ delta.host \notin TreeAfter(k).subsystems[nqn].allowed_hosts
                /\ delta.host \in TreeAfter(k).hosts
                /\ \E other \in DOMAIN TreeAfter(k).subsystems :
                      other # nqn /\ delta.host \in TreeAfter(k).subsystems[other].allowed_hosts

(* A host is attached whose directory exists, and one whose directory is   *)
(* missing.                                                                *)
C22_WitnessAttach ==
    \E k \in CompletedOf("UpdateSubsystem") :
        \E j \in 1..Len(call.changes[k].deltas) :
            LET delta == call.changes[k].deltas[j]
            IN  /\ delta.kind = "AddHost"
                /\ delta.host \in TreeAfter(k - 1).hosts
                /\ delta.host \in TreeAfter(k).subsystems[call.changes[k].nqn].allowed_hosts
C22_WitnessCreate ==
    \E k \in CompletedOf("UpdateSubsystem") :
        \E j \in 1..Len(call.changes[k].deltas) :
            LET delta == call.changes[k].deltas[j]
            IN  /\ delta.kind = "AddHost"
                /\ delta.host \notin TreeAfter(k - 1).hosts
                /\ delta.host \in TreeAfter(k).hosts
                /\ delta.host \in TreeAfter(k).subsystems[call.changes[k].nqn].allowed_hosts

-----------------------------------------------------------------------------
(* The ports of a tree whose addr_trtype is none of loop, tcp, rdma, fc.   *)
UnknownTypePorts(t) ==
    {id \in DOMAIN t.ports :
        to_string(read_str(t.ports[id].addr_trtype)) \notin {"loop", "tcp", "rdma", "fc"}}

(* C23: gather_state skips a port whose addr_trtype is not one of loop,    *)
(* tcp, rdma, fc: the call succeeds, the state it returns leaves out that  *)
(* port only, and holds every other port and every subsystem of the tree.  *)
C23_UnknownTypeSkipped ==
    (call.op = "Save" /\ call.pre.exists /\ UnknownTypePorts(call.pre) # {}) =>
        /\ call.err = Ok
        /\ DOMAIN call.input.ports = DOMAIN call.pre.ports \ UnknownTypePorts(call.pre)
        /\ DOMAIN call.input.subsystems = DOMAIN call.pre.subsystems

-----------------------------------------------------------------------------
(* 32-bit namespace ids, a value with the top bit set held as the negative *)
(* integer of the same bits: 0, 1, 2, 0x7fffffff, 0x80000001, 0xfffffffe,  *)
(* 0xffffffff.                                                             *)
NsidInputs == {0, 1, 2, 2147483647, -2147483647, -2, NsidAll}

(* C24: namespace id validation. assert_valid_nsid rejects 0 and           *)
(* 0xffffffff with InvalidNamespaceID and accepts every other value. An    *)
(* AddNamespace with a rejected id, as a sub-delta of UpdateSubsystem or   *)
(* as an entry of the namespaces of an AddSubsystem, fails with that error *)
(* and makes no directory for it: no subsystem of the tree ever holds a    *)
(* namespace with a rejected id.                                           *)
C24_NsidValidation ==
    /\ \A nsid \in NsidInputs :
          assert_valid_nsid(nsid) =
              IF nsid \in {0, NsidAll} THEN Error("InvalidNamespaceID", nsid) ELSE Ok
    /\ \A nqn \in DOMAIN tree.subsystems :
          \A nsid \in DOMAIN tree.subsystems[nqn].namespaces : nsid \notin {0, NsidAll}
    /\ Applied =>
          \A i \in 1..Len(call.log) :
              call.log[i].op = "create_dir" /\ Len(call.log[i].path) = 4 =>
                  call.log[i].path[4] \notin {ToString(0), ToString(NsidAll)}
    /\ \A k \in StartedOf("UpdateSubsystem") :
          LET nqn == call.changes[k].nqn
              ds == call.changes[k].deltas
              before == TreeAfter(k - 1)
              run[i \in 0..Len(ds)] ==
                  IF i = 0 THEN Begin(before)
                  ELSE apply_SubsystemDelta(run[i - 1], nqn, ds[i])
          IN  nqn \in DOMAIN before.subsystems =>
                \A j \in 1..Len(ds) :
                    (/\ ds[j].kind = "AddNamespace"
                     /\ ds[j].nsid \in {0, NsidAll}
                     /\ ~Failed(run[j - 1])) =>
                        /\ run[j].err = Error("InvalidNamespaceID", ds[j].nsid)
                        /\ run[j].tree = run[j - 1].tree
                        /\ call.err = run[j].err
                        /\ tree = run[j].tree
    /\ \A k \in StartedOf("AddSubsystem") :
          LET nqn == call.changes[k].nqn
              nses == call.changes[k].sub.namespaces
              rejected == DOMAIN nses \cap {0, NsidAll}
          IN  (/\ rejected # {}
               /\ call.pre.exists
               /\ nqn \notin DOMAIN TreeAfter(k - 1).subsystems
               /\ \A nsid \in DOMAIN nses : ~BadDevice(nses[nsid])) =>
                  /\ \E nsid \in rejected : call.err = Error("InvalidNamespaceID", nsid)
                  /\ DOMAIN tree.subsystems[nqn].namespaces \subseteq DOMAIN nses \ rejected
                  /\ tree.subsystems[nqn].allowed_hosts = {}

(* An AddNamespace sub-delta with id 0 was refused after an AddNamespace   *)
(* with a valid id was carried out.                                        *)
C24_Witness ==
    \E k \in StartedOf("UpdateSubsystem") :
        \E j \in 2..Len(call.changes[k].deltas) :
            LET delta == call.changes[k].deltas[j]
                nqn == call.changes[k].nqn
            IN  /\ delta.kind = "AddNamespace" /\ delta.nsid = 0
                /\ call.err = Error("InvalidNamespaceID", 0)
                /\ nqn \in DOMAIN tree.subsystems
                /\ call.changes[k].deltas[j - 1].kind = "AddNamespace"
                /\ call.changes[k].deltas[j - 1].nsid \in DOMAIN tree.subsystems[nqn].namespaces
                /\ call.changes[k].deltas[j - 1].nsid
                       \notin DOMAIN call.pre.subsystems[nqn].namespaces

(* An AddSubsystem with the id 0xffffffff among its namespaces was refused *)
(* at that namespace, after the namespace with the valid id was installed. *)
C24_WitnessAddSubsystem ==
    \E k \in StartedOf("AddSubsystem") :
        LET nqn == call.changes[k].nqn
        IN  /\ NsidAll \in DOMAIN call.changes[k].sub.namespaces
            /\ call.err = Error("InvalidNamespaceID", NsidAll)
            /\ nqn \in DOMAIN tree.subsystems
            /\ nqn \notin DOMAIN call.pre.subsystems
            /\ DOMAIN tree.subsystems[nqn].namespaces = {1}

-----------------------------------------------------------------------------
(* C25: the reserved discovery NQN passes assert_valid_nqn, and it is      *)
(* refused as the name of a subsystem on every path that creates one: the  *)
(* tree never holds subsystems/nqn.2014-08.org.nvmexpress.discovery.       *)
C25_DiscoveryRefused ==
    /\ assert_valid_nqn(DiscoveryNqn) = Ok
    /\ DiscoveryNqn \notin DOMAIN tree.subsystems
    /\ \A k \in StartedOf("AddSubsystem") :
          call.changes[k].nqn = DiscoveryNqn => call.err # Ok /\ StepsMade(k) = 0

-----------------------------------------------------------------------------
(* The grammar of a compliant NQN: ASCII, 15 to 223 bytes, the prefix      *)
(* "nqn.", and either "nqn.2014-08.org.nvmexpress:uuid:" and a valid UUID, *)
(* or nqn.YYYY-MM.<domain>:<identifier> with '.', '-', '.' as the 4th, 9th *)
(* and 12th byte, four digits of year, two digits of month, a domain that  *)
(* is not empty and not org.nvmexpress, and an identifier after the first  *)
(* ':' that is not empty.                                                  *)
CompliantNqnGrammar(x) ==
    /\ is_ascii_only(to_string(x))
    /\ text_len(x) <= MaxNqnLen
    /\ text_len(x) >= MinNqnLen
    /\ starts_with(x, NqnPrefix)
    /\ \/ /\ starts_with(x, UuidNqnPrefix)
          /\ Uuid_try_parse(SubSeq(x, Len(UuidNqnPrefix) + 1, Len(x))) = Ok
       \/ /\ x[4] = "." /\ x[9] = "-" /\ x[12] = "."
          /\ \A i \in 5..8 : IsDigit(x[i], DecDigits)
          /\ \A i \in 10..11 : IsDigit(x[i], DecDigits)
          /\ \E c \in 14..(Len(x) - 1) :
                /\ x[c] = ":"
                /\ \A i \in 13..(c - 1) : x[i] # ":"
                /\ SubSeq(x, 13, c - 1) # OrgNvmexpress

(* C26: assert_compliant_nqn(x) succeeds iff x matches the grammar of a    *)
(* compliant NQN.                                                          *)
C26_CompliantNqn ==
    (level = "nqn" /\ dpc = "checked") => (deltas = Ok <=> CompliantNqnGrammar(base))

-----------------------------------------------------------------------------
(* The 16 lowercase hexadecimal digits of a u64.                           *)
Hex16(n) == [i \in 1..16 |-> HexDigits[n[i] + 1]]

(* C27: FC address round trip. to_traddr of FibreChannelAddr{wwnn, wwpn}   *)
(* is "nn-0x", the 16 lowercase hexadecimal digits of wwnn, ":pn-0x" and   *)
(* the 16 digits of wwpn, 43 characters for every value; from_str of that  *)
(* text returns Ok(FibreChannelAddr{wwnn, wwpn}).                          *)
C27_FcRoundTrip ==
    level = "fc_addr" =>
        /\ dpc \in {"formatted", "parsed"} =>
              /\ Len(desired) = FcLongLen
              /\ desired = <<"n", "n", "-", "0", "x">> \o Hex16(base.wwnn)
                               \o <<":", "p", "n", "-", "0", "x">> \o Hex16(base.wwpn)
        /\ dpc = "parsed" => deltas = Ret(base)

(* An address whose two names begin with zero digits made the round trip.  *)
C27_Witness ==
    /\ level = "fc_addr" /\ dpc = "parsed"
    /\ base.wwnn[1] = 0 /\ base.wwpn[1] = 0 /\ base.wwnn # base.wwpn
    /\ deltas = Ret(base)

-----------------------------------------------------------------------------
(* The two forms of an FC address text and the value its digits stand for. *)
AllHex(s, from, to) == \A i \in from..to : IsHexDigit(s[i])
FcCanonicalForm(s) ==
    /\ Len(s) = FcLongLen
    /\ SubSeq(s, 1, 5) = <<"n", "n", "-", "0", "x">> /\ AllHex(s, 6, 21)
    /\ SubSeq(s, 22, 27) = <<":", "p", "n", "-", "0", "x">> /\ AllHex(s, 28, 43)
FcShortForm(s) ==
    /\ Len(s) = FcShortLen
    /\ SubSeq(s, 1, 3) = <<"n", "n", "-">> /\ AllHex(s, 4, 19)
    /\ SubSeq(s, 20, 23) = <<":", "p", "n", "-">> /\ AllHex(s, 24, 39)
U64Of(s, from) == [i \in 1..16 |-> HexValue(s[from + i - 1])]

(* C28: FibreChannelAddr::from_str accepts the canonical form              *)
(* nn-0x<16 hex>:pn-0x<16 hex> and the short form nn-<16 hex>:pn-<16 hex>, *)
(* with the value of the digits, and rejects every other text: one of      *)
(* another length, and one of length 43 or 39 whose fixed characters or    *)
(* hexadecimal digits do not match the form.                               *)
C28_FcParse ==
    (level = "fc_str" /\ dpc = "parsed") =>
        /\ deltas.err = Ok <=> (FcCanonicalForm(base) \/ FcShortForm(base))
        /\ FcCanonicalForm(base) =>
              deltas = Ret(FibreChannelAddr(U64Of(base, 6), U64Of(base, 28)))
        /\ FcShortForm(base) =>
              deltas = Ret(FibreChannelAddr(U64Of(base, 4), U64Of(base, 24)))

-----------------------------------------------------------------------------
(* C29: a Restore of a snapshot whose version is not zero fails with       *)
(* UnsupportedConfigVersion(version) and nothing else has happened: the    *)
(* tree is the tree of before, nothing was written, and the error is the   *)
(* version error even where a scan of the tree would have failed. A        *)
(* snapshot with no version member is handled as one of version 0: it is   *)
(* not refused for its version, and what is applied is the difference      *)
(* between the scan of the tree and the state of the snapshot.             *)
C29_UnsupportedVersion ==
    (call.op = "Restore") =>
        LET doc == call.input
            scan == gather_state(call.pre)
        IN  /\ (IsSome(doc.version) /\ Unwrap(doc.version) # 0) =>
                  /\ call.err = Error("UnsupportedConfigVersion", Unwrap(doc.version))
                  /\ tree = call.pre
                  /\ call.log = <<>>
                  /\ call.changes = <<>>
            /\ (~IsSome(doc.version) \/ doc.version = Some(0)) =>
                  /\ call.err.kind # "UnsupportedConfigVersion"
                  /\ IF scan.err # Ok
                     THEN call.err = scan.err /\ tree = call.pre
                     ELSE call.changes = State_get_deltas(scan.val, doc.state)

(* A snapshot of version 1 or 2 restored where there is no nvmet tree to   *)
(* scan, and a snapshot with no version member restored with success.      *)
C29_Witness ==
    /\ call.op = "Restore"
    /\ IsSome(call.input.version)
    /\ Unwrap(call.input.version) # 0
    /\ gather_state(call.pre).err # Ok

C29_WitnessNoVersion ==
    /\ call.op = "Restore"
    /\ ~IsSome(call.input.version)
    /\ call.err = Ok
    /\ call.changes # <<>>
    /\ tree # call.pre

-----------------------------------------------------------------------------
(* A desired state that can be applied as it stands: its ports link only   *)
(* subsystems it holds, and its names, namespace ids and devices pass the  *)
(* checks of the executor.                                                 *)
SelfContained(d) ==
    /\ \A p \in DOMAIN d.ports : d.ports[p].subsystems \subseteq DOMAIN d.subsystems
    /\ \A n \in DOMAIN d.subsystems :
          /\ assert_valid_nqn(n) = Ok
          /\ \A h \in d.subsystems[n].allowed_hosts : assert_valid_nqn(h) = Ok
          /\ \A i \in DOMAIN d.subsystems[n].namespaces :
                /\ assert_valid_nsid(i) = Ok
                /\ ~BadDevice(d.subsystems[n].namespaces[i])

(* The scan of the tree shows every port and subsystem the tree holds.     *)
FullScan(t) ==
    /\ gather_state(t).err = Ok
    /\ DOMAIN gather_state(t).val.ports = DOMAIN t.ports
    /\ DOMAIN gather_state(t).val.subsystems = DOMAIN t.subsystems

(* C30: applicability of computed deltas. A Restore or Clear on a tree     *)
(* whose scan is B, towards a state D that is self-contained, returns Ok:  *)
(* no delta of B.get_deltas(D) fails because of what an earlier delta of   *)
(* the same list did.                                                      *)
C30_DeltasApplicable ==
    ( /\ call.op \in {"Restore", "Clear"}
      /\ call.op = "Restore" => call.input.version = 0
      /\ FullScan(call.pre)
      /\ SelfContained(Wanted) ) => call.err = Ok

-----------------------------------------------------------------------------
(* attr_allow_any_host of every subsystem of a tree says whether its       *)
(* allowed_hosts is empty.                                                 *)
AllowAnyTracksHosts(t) ==
    \A n \in DOMAIN t.subsystems :
        (t.subsystems[n].attr_allow_any_host = <<"1">>)
            <=> (t.subsystems[n].allowed_hosts = {})

(* C31: attr_allow_any_host tracks the allowed-host set. A tree in which   *)
(* every subsystem has attr_allow_any_host = 1 iff its allowed_hosts is    *)
(* empty is still such a tree after any apply_delta that returned Ok, the  *)
(* AddHost and RemoveHost sub-deltas of UpdateSubsystem included.          *)
C31_AllowAnyTracksHosts ==
    (Applied /\ call.err = Ok /\ AllowAnyTracksHosts(call.pre))
        => AllowAnyTracksHosts(tree)

-----------------------------------------------------------------------------
(* The transport type that top-level delta k of the call wrote to its      *)
(* port: the type of an AddPort, the last UpdatePortType of an UpdatePort.  *)
WritesType(k) ==
    \/ call.changes[k].kind = "AddPort"
    \/ call.changes[k].kind = "UpdatePort" /\ TypeUpdates(call.changes[k].deltas) # {}

TypeWritten(k) ==
    IF call.changes[k].kind = "AddPort" THEN call.changes[k].port.port_type
    ELSE LET ds == call.changes[k].deltas
             j == CHOOSE j \in TypeUpdates(ds) : \A i \in TypeUpdates(ds) : i <= j
         IN  ds[j].port_type

(* C32: port type round trip. After an AddPort or an UpdatePort with an    *)
(* UpdatePortType has completed, get_type of the port returns the type     *)
(* that was written, and a gather_state of that tree shows the port with   *)
(* that type.                                                              *)
C32_PortTypeRoundTrip ==
    Applied =>
        \A k \in 1..Len(call.changes) :
            (Completed(k) /\ WritesType(k)) =>
                LET id == call.changes[k].id
                    scan == gather_state(TreeAfter(k))
                IN  /\ NvmetPort_get_type(TreeAfter(k), id) = Ret(TypeWritten(k))
                    /\ scan.err = Ok
                    /\ id \in DOMAIN scan.val.ports
                    /\ scan.val.ports[id].port_type = TypeWritten(k)

-----------------------------------------------------------------------------
(* Every link of every port of a tree names a subsystem of the tree.       *)
PortLinksResolve(t) ==
    \A id \in DOMAIN t.ports : t.ports[id].subsystems \subseteq DOMAIN t.subsystems

(* The tree after the first m steps of the call.                           *)
TreeAtStep(m) == Replay(call.pre, SubSeq(call.log, 1, m))

(* C33: port reference integrity. Every link under ports/<id>/subsystems   *)
(* names an existing subsystem, in the tree every call leaves, successful  *)
(* or failed, and after every single step of a call: a link is made only   *)
(* to a subsystem that exists, a subsystem directory is removed only when  *)
(* no port links it, and a call that ends with NoSuchSubsystem(nqn) has    *)
(* left no link to nqn.                                                    *)
C33_PortReferenceIntegrity ==
    /\ PortLinksResolve(tree)
    /\ Applied =>
          /\ \A m \in 0..Len(call.log) : PortLinksResolve(TreeAtStep(m))
          /\ \A m \in 1..Len(call.log) :
                LET e == call.log[m]
                IN  /\ (e.op = "symlink" /\ e.path[1] = "ports") =>
                          e.path[4] \in DOMAIN TreeAtStep(m - 1).subsystems
                    /\ (e.op = "remove_dir" /\ e.path[1] = "subsystems" /\ Len(e.path) = 2) =>
                          LinkingPorts(TreeAtStep(m - 1), e.path[2]) = {}
          /\ call.err.kind = "NoSuchSubsystem" =>
                /\ call.err.what \notin DOMAIN tree.subsystems
                /\ LinkingPorts(tree, call.err.what) = {}

(* A port link made by UpdatePort or AddPort, a subsystem removed while a  *)
(* port linked it at the start of the call, and a link refused because its *)
(* subsystem does not exist.                                               *)
C33_Witness ==
    /\ Applied
    /\ call.err = Ok
    /\ \E m \in 1..Len(call.log) :
          /\ call.log[m].op = "remove_dir"
          /\ call.log[m].path[1] = "subsystems"
          /\ Len(call.log[m].path) = 2
          /\ LinkingPorts(call.pre, call.log[m].path[2]) # {}

C33_WitnessLink ==
    /\ Applied
    /\ \E m \in 1..Len(call.log) : call.log[m].op = "symlink" /\ call.log[m].path[1] = "ports"

C33_WitnessRefused ==
    /\ Applied
    /\ call.err.kind = "NoSuchSubsystem"
    /\ \E k \in StartedOf("UpdatePort") \cup StartedOf("AddPort") : call.log[Len(call.log)].d = k
    /\ \E id \in DOMAIN tree.ports : tree.ports[id].subsystems # {}

-----------------------------------------------------------------------------
(* Every allowed host of every subsystem of a tree has its hosts/<h>       *)
(* directory.                                                              *)
HostLinksResolve(t) ==
    \A n \in DOMAIN t.subsystems : t.subsystems[n].allowed_hosts \subseteq t.hosts

(* C34: host reference integrity. Every entry of every                     *)
(* subsystems/<nqn>/allowed_hosts names an existing hosts/<h> directory,   *)
(* in the tree every call leaves and after every single step of a call:    *)
(* a host is linked only when its directory exists, and a host directory   *)
(* is removed only when no subsystem links it.                             *)
C34_HostReferenceIntegrity ==
    /\ HostLinksResolve(tree)
    /\ Applied =>
          /\ \A m \in 0..Len(call.log) : HostLinksResolve(TreeAtStep(m))
          /\ \A m \in 1..Len(call.log) :
                LET e == call.log[m]
                    before == TreeAtStep(m - 1)
                IN  /\ (e.op = "symlink" /\ e.path[1] = "subsystems") =>
                          e.path[4] \in before.hosts
                    /\ (e.op = "remove_dir" /\ e.path[1] = "hosts") =>
                          e.path[2] \notin AllowedBy(before, DOMAIN before.subsystems)

(* A host directory made and linked in one call, and a host directory      *)
(* removed in a call that started with a subsystem linking it.             *)
C34_Witness ==
    /\ Applied
    /\ \E m \in 1..Len(call.log) :
          /\ call.log[m].op = "remove_dir"
          /\ call.log[m].path[1] = "hosts"
          /\ call.log[m].path[2] \in AllowedBy(call.pre, DOMAIN call.pre.subsystems)
          /\ tree.subsystems # EmptyMap

C34_WitnessCreate ==
    /\ Applied
    /\ \E m \in 1..Len(call.log) :
          /\ call.log[m].op = "symlink"
          /\ call.log[m].path[1] = "subsystems"
          /\ call.log[m].path[4] \notin call.pre.hosts

-----------------------------------------------------------------------------
(* Every port of the tree holds the attribute files of some PortType.      *)
Representable(t) ==
    \A id \in DOMAIN t.ports : \E pt \in PortTypeInputs : TypeStored(t.ports[id], pt)

(* C35: Clear converges. On a tree whose ports all have a representable    *)
(* transport type, Clear returns Ok and leaves no port, no subsystem and   *)
(* no directory of a host that a subsystem was allowing; a gather_state of *)
(* the tree it leaves returns the empty State.                             *)
C35_ClearConverges ==
    (call.op = "Clear" /\ call.pre.exists /\ Representable(call.pre)) =>
        /\ call.err = Ok
        /\ tree.ports = EmptyMap
        /\ tree.subsystems = EmptyMap
        /\ tree.hosts \cap AllowedBy(call.pre, DOMAIN call.pre.subsystems) = {}
        /\ gather_state(tree) = Ret(State_default)

-----------------------------------------------------------------------------
(* C36: while apply_delta executes an UpdateSubsystem whose payload is     *)
(* Subsystem::get_deltas(B, D) with B.allowed_hosts and D.allowed_hosts    *)
(* both non-empty, the allowed_hosts of the subsystem is non-empty after   *)
(* every step, whether the update completes or fails on the way: every     *)
(* AddHost of the payload stands before every RemoveHost.                  *)
C36_HostsNeverEmpty ==
    (call.op = "Restore") =>
        \A k \in StartedOf("UpdateSubsystem") :
            LET nqn == call.changes[k].nqn
                ds == call.changes[k].deltas
                B == gather_state(call.pre).val.subsystems[nqn]
                D == Wanted.subsystems[nqn]
            IN  (B.allowed_hosts # {} /\ D.allowed_hosts # {}) =>
                  /\ ds = Subsystem_get_deltas(B, D)
                  /\ \A i, j \in 1..Len(ds) :
                        (ds[i].kind = "AddHost" /\ ds[j].kind = "RemoveHost") => i < j
                  /\ \A m \in 0..StepsMade(k) :
                        TreeWithin(k, m).subsystems[nqn].allowed_hosts # {}

(* An update that replaces every allowed host of the subsystem by another  *)
(* one and completes.                                                      *)
C36_Witness ==
    /\ call.op = "Restore"
    /\ \E k \in CompletedOf("UpdateSubsystem") :
          LET nqn == call.changes[k].nqn
              B == gather_state(call.pre).val.subsystems[nqn]
              D == Wanted.subsystems[nqn]
          IN  /\ B.allowed_hosts # {}
              /\ D.allowed_hosts # {}
              /\ B.allowed_hosts \cap D.allowed_hosts = {}
              /\ tree.subsystems[nqn].allowed_hosts = D.allowed_hosts

-----------------------------------------------------------------------------
(* The sub-deltas of UpdateSubsystem k of the call, one after the other,   *)
(* from the tree the deltas before k left.                                 *)
SubRuns(k) ==
    LET nqn == call.changes[k].nqn
        ds == call.changes[k].deltas
        run[i \in 0..Len(ds)] ==
            IF i = 0 THEN Begin(TreeAfter(k - 1))
            ELSE apply_SubsystemDelta(run[i - 1], nqn, ds[i])
    IN  run

(* C37: a namespace sub-delta on the wrong side of existence. An           *)
(* UpdateNamespace or RemoveNamespace of a namespace id the subsystem does *)
(* not hold fails with NoSuchNamespace(nsid, nqn), an AddNamespace of an   *)
(* id it holds fails with ExistingNamespace(nsid, nqn); in both cases the  *)
(* namespaces of the subsystem stay as they were and the call ends with    *)
(* that error.                                                             *)
C37_NamespaceExistence ==
    \A k \in StartedOf("UpdateSubsystem") :
        LET nqn == call.changes[k].nqn
            ds == call.changes[k].deltas
            run == SubRuns(k)
        IN  nqn \in DOMAIN TreeAfter(k - 1).subsystems =>
              \A j \in 1..Len(ds) :
                  LET before == run[j - 1].tree
                      absent == ~HasNamespaceDir(before, nqn, ds[j].nsid)
                      expected ==
                          IF ds[j].kind = "AddNamespace"
                          THEN Error("ExistingNamespace", <<ds[j].nsid, nqn>>)
                          ELSE Error("NoSuchNamespace", <<ds[j].nsid, nqn>>)
                  IN  (/\ ~Failed(run[j - 1])
                       /\ ds[j].kind \in {"AddNamespace", "UpdateNamespace", "RemoveNamespace"}
                       /\ assert_valid_nsid(ds[j].nsid) = Ok
                       /\ (ds[j].kind = "AddNamespace") = ~absent) =>
                          /\ run[j].err = expected
                          /\ run[j].tree.subsystems[nqn].namespaces
                                = before.subsystems[nqn].namespaces
                          /\ call.err = expected
                          /\ tree.subsystems[nqn].namespaces = before.subsystems[nqn].namespaces

-----------------------------------------------------------------------------
(* The stage of AddSubsystem(nqn, _) a step belongs to: 1 the directory,   *)
(* 2 the model, 3 the serial, 4 the namespaces, 5 attr_allow_any_host,     *)
(* 6 the hosts; 0 for a step that is none of them.                         *)
AddStage(nqn, e) ==
    CASE e.op = "create_dir" /\ e.path = SubsystemPath(nqn) -> 1
      [] e.op = "write" /\ e.path = SubsystemPath(nqn) \o <<"attr_model">> -> 2
      [] e.op = "write" /\ e.path = SubsystemPath(nqn) \o <<"attr_serial">> -> 3
      [] Len(e.path) >= 4 /\ SubSeq(e.path, 1, 3) = SubsystemPath(nqn) \o <<"namespaces">> -> 4
      [] e.op = "write" /\ e.path = SubsystemPath(nqn) \o <<"attr_allow_any_host">> -> 5
      [] e.op = "create_dir" /\ Len(e.path) = 2 /\ e.path[1] = "hosts" -> 6
      [] e.op = "symlink" /\ Len(e.path) = 4
            /\ SubSeq(e.path, 1, 3) = SubsystemPath(nqn) \o <<"allowed_hosts">> -> 6
      [] OTHER -> 0

StageSteps(k, nqn, stage) ==
    {i \in StepsOf(k) : call.log[i].op # "error" /\ AddStage(nqn, call.log[i]) = stage}

(* C38: AddSubsystem(nqn, s) on an absent subsystem makes its steps in the *)
(* order directory, model if Some, serial if Some, namespaces,             *)
(* attr_allow_any_host, hosts, and makes no other step; when it completes, *)
(* every stage has been made, the allowed_hosts of the subsystem is        *)
(* s.allowed_hosts and its namespace ids are the keys of s.namespaces.     *)
C38_AddSubsystemOrder ==
    \A k \in StartedOf("AddSubsystem") :
        LET nqn == call.changes[k].nqn
            s == call.changes[k].sub
            made == {i \in StepsOf(k) : call.log[i].op # "error"}
            after == TreeAfter(k)
        IN  (call.pre.exists /\ nqn \notin DOMAIN TreeAfter(k - 1).subsystems) =>
              /\ \A i \in made : AddStage(nqn, call.log[i]) # 0
              /\ \A i, j \in made :
                    i < j => AddStage(nqn, call.log[i]) <= AddStage(nqn, call.log[j])
              /\ Cardinality(StageSteps(k, nqn, 1)) <= 1
              /\ Cardinality(StageSteps(k, nqn, 2)) <= (IF IsSome(s.model) THEN 1 ELSE 0)
              /\ Cardinality(StageSteps(k, nqn, 3)) <= (IF IsSome(s.serial) THEN 1 ELSE 0)
              /\ Cardinality(StageSteps(k, nqn, 5)) <= 1
              /\ Completed(k) =>
                    /\ Cardinality(StageSteps(k, nqn, 1)) = 1
                    /\ Cardinality(StageSteps(k, nqn, 2)) = (IF IsSome(s.model) THEN 1 ELSE 0)
                    /\ Cardinality(StageSteps(k, nqn, 3)) = (IF IsSome(s.serial) THEN 1 ELSE 0)
                    /\ Cardinality(StageSteps(k, nqn, 5)) = 1
                    /\ {call.log[i].path[4] : i \in {j \in StageSteps(k, nqn, 4) :
                                                       call.log[j].op = "create_dir"}}
                          = {ToString(nsid) : nsid \in DOMAIN s.namespaces}
                    /\ HostsStepped(SubSeq(call.log, StepsUpTo(k - 1) + 1, StepsUpTo(k)),
                                    nqn, "symlink") = s.allowed_hosts
                    /\ after.subsystems[nqn].allowed_hosts = s.allowed_hosts
                    /\ DOMAIN after.subsystems[nqn].namespaces = DOMAIN s.namespaces

(* An AddSubsystem with a model, a serial, a namespace and a host that     *)
(* completes.                                                              *)
C38_Witness ==
    \E k \in CompletedOf("AddSubsystem") :
        LET s == call.changes[k].sub
        IN  /\ call.changes[k].nqn \notin DOMAIN TreeAfter(k - 1).subsystems
            /\ IsSome(s.model)
            /\ IsSome(s.serial)
            /\ s.namespaces # EmptyMap
            /\ s.allowed_hosts # {}

-----------------------------------------------------------------------------
(* get_btreemap_differences(b, n) splits the keys of the two maps into     *)
(* four classes that do not overlap.                                       *)
DiffPartitions(b, n) ==
    LET d == get_btreemap_differences(b, n)
    IN  /\ d.same \cap d.removed = {}
        /\ d.same \cap d.changed = {}
        /\ d.same \cap d.added = {}
        /\ d.removed \cap d.changed = {}
        /\ d.removed \cap d.added = {}
        /\ d.changed \cap d.added = {}
        /\ d.same \cup d.removed \cup d.changed \cup d.added = DOMAIN b \cup DOMAIN n
        /\ d.removed = DOMAIN b \ DOMAIN n
        /\ d.added = DOMAIN n \ DOMAIN b
        /\ \A k \in DOMAIN b \cap DOMAIN n :
              /\ k \in d.same <=> b[k] = n[k]
              /\ k \in d.changed <=> b[k] # n[k]

PortKinds == {"AddPort", "UpdatePort", "RemovePort"}

(* C39: get_btreemap_differences partitions the keys. same, removed,       *)
(* changed and added are pairwise disjoint and cover the keys of both      *)
(* maps; removed and added are the keys of one map only; a common key is   *)
(* in same iff its two values are equal and in changed otherwise. So no    *)
(* port id and no subsystem NQN is named by two top-level deltas of        *)
(* State::get_deltas.                                                      *)
C39_DifferencesPartition ==
    /\ level = "state" =>
          /\ DiffPartitions(base.subsystems, desired.subsystems)
          /\ DiffPartitions(base.ports, desired.ports)
          /\ dpc = "diffed" =>
                \A i, j \in 1..Len(deltas) :
                    i # j =>
                        IF deltas[i].kind \in PortKinds
                        THEN deltas[j].kind \in PortKinds => deltas[i].id # deltas[j].id
                        ELSE deltas[j].kind \notin PortKinds => deltas[i].nqn # deltas[j].nqn
    /\ level = "subsystem" => DiffPartitions(base.namespaces, desired.namespaces)

(* A diffed pair of States with a removed and an added subsystem and a     *)
(* changed port, and a diffed pair with a subsystem that stays the same.   *)
C39_Witness ==
    /\ level = "state"
    /\ dpc = "diffed"
    /\ LET d == get_btreemap_differences(base.subsystems, desired.subsystems)
       IN  d.removed # {} /\ d.added # {}
    /\ get_btreemap_differences(base.ports, desired.ports).changed # {}
    /\ Len(deltas) >= 3

C39_WitnessSame ==
    /\ level = "state"
    /\ dpc = "diffed"
    /\ get_btreemap_differences(base.subsystems, desired.subsystems).same # {}
    /\ get_btreemap_differences(base.ports, desired.ports).changed # {}

=============================================================================
